---- MODULE Spec2Model ----
(***************************************************************************)
(* DocQueryAI back end: the retrieval-augmented generation pipeline.       *)
(*                                                                         *)
(* Texts are sequences of one-character strings, so that len(), slicing,   *)
(* strip() and the regular expressions of app/utils/text_chunker.py are    *)
(* computed character by character, as the code computes them.             *)
(***************************************************************************)
EXTENDS Integers, Sequences, FiniteSets, TLC

(***************************************************************************)
(* Program constants of app/utils/text_chunker.py                          *)
(***************************************************************************)
DEFAULT_CHUNK_SIZE == 1000
DEFAULT_CHUNK_OVERLAP == 200
MIN_CHUNK_SIZE == 100

(***************************************************************************)
(* String helpers (Python str / re semantics)                              *)
(***************************************************************************)
\* the characters matched by \s and stripped by str.strip()
WS == {" ", "\n", "\t"}
DIGITS == {"0", "1", "2", "3", "4", "5", "6", "7", "8", "9"}
SENTENCE_END == {".", "!", "?"}

Rep(c, n) == [i \in 1..n |-> c]

MinOf(S) == CHOOSE i \in S : \A j \in S : i <= j
MaxOf(S) == CHOOSE i \in S : \A j \in S : i >= j

\* the subsequence of s at the indices in K, each kept character mapped by
\* f; computed by halving so that the evaluation depth is logarithmic
RECURSIVE KeepIdx(_, _, _, _, _)
KeepIdx(s, K, f, lo, hi) ==
    IF lo > hi THEN << >>
    ELSE IF lo = hi THEN (IF lo \in K THEN << f[s[lo]] >> ELSE << >>)
    ELSE LET mid == (lo + hi) \div 2
         IN  KeepIdx(s, K, f, lo, mid) \o KeepIdx(s, K, f, mid + 1, hi)

CharsOf(s) == {s[i] : i \in 1..Len(s)}
IdChar(s) == [c \in CharsOf(s) |-> c]

\* str.strip()
strip(s) ==
    LET n == Len(s)
        NonWs == {i \in 1..n : s[i] \notin WS}
    IN  IF NonWs = {} THEN << >> ELSE SubSeq(s, MinOf(NonWs), MaxOf(NonWs))

\* s[-k:] for k > 0
Tail_(s, k) == IF Len(s) <= k THEN s ELSE SubSeq(s, Len(s) - k + 1, Len(s))

\* str.find(c): 0-based index of the first occurrence, -1 when absent
find(s, c) ==
    LET Hit == {i \in 1..Len(s) : s[i] = c}
    IN  IF Hit = {} THEN -1 ELSE MinOf(Hit) - 1

\* s occurs in t at (1-based) position i
OccursAt(s, t, i) ==
    /\ i >= 1
    /\ i + Len(s) - 1 <= Len(t)
    /\ \A k \in 1..Len(s) : t[i + k - 1] = s[k]

(***************************************************************************)
(* app/utils/text_chunker.py                                               *)
(***************************************************************************)
\* re.sub(r'\s+', ' ', text) ; re.sub(r'\n{3,}', '\n\n', text) ; strip()
clean_text(text) ==
    LET n == Len(text)
        K1 == {i \in 1..n : ~(text[i] \in WS /\ i > 1 /\ text[i - 1] \in WS)}
        f1 == [c \in CharsOf(text) |-> IF c \in WS THEN " " ELSE c]
        t1 == KeepIdx(text, K1, f1, 1, n)
        n1 == Len(t1)
        K2 == {i \in 1..n1 : ~(t1[i] = "\n" /\ i > 2 /\ t1[i - 1] = "\n"
                                 /\ t1[i - 2] = "\n")}
        t2 == KeepIdx(t1, K2, IdChar(t1), 1, n1)
    IN  strip(t2)

\* str.split(sep) for a two-character separator: the pieces between the
\* non-overlapping occurrences of sep, scanned from the left
RECURSIVE split2(_, _, _)
split2(s, sep, from) ==
    LET Hit == {i \in from..(Len(s) - 1) : s[i] = sep[1] /\ s[i + 1] = sep[2]}
    IN  IF Hit = {} THEN << SubSeq(s, from, Len(s)) >>
        ELSE LET i == MinOf(Hit)
             IN  << SubSeq(s, from, i - 1) >> \o split2(s, sep, i + 2)

\* text.split('\n\n'), then the stripped non-empty pieces
split_into_paragraphs(text) ==
    LET parts == split2(text, << "\n", "\n" >>, 1)
        stripped == [i \in 1..Len(parts) |-> strip(parts[i])]
    IN  SelectSeq(stripped, LAMBDA p : p # << >>)

\* end (1-based, inclusive) of a match of \[Page (\d+)\] starting at i,
\* or 0 when there is none
PageMarkerEnd(s, i) ==
    IF ~OccursAt(<< "[", "P", "a", "g", "e", " " >>, s, i) THEN 0
    ELSE LET Close == {j \in (i + 7)..Len(s) :
                          /\ s[j] = "]"
                          /\ \A k \in (i + 6)..(j - 1) : s[k] \in DIGITS}
         IN  IF Close = {} THEN 0 ELSE MinOf(Close)

PageMarkerStarts(s) == {i \in 1..Len(s) : PageMarkerEnd(s, i) # 0}

DigitVal(c) == CHOOSE d \in 0..9 : << "0", "1", "2", "3", "4", "5", "6", "7", "8", "9" >>[d + 1] = c

RECURSIVE int(_)
int(ds) == IF ds = << >> THEN 0
           ELSE 10 * int(SubSeq(ds, 1, Len(ds) - 1)) + DigitVal(ds[Len(ds)])

\* int(re.search(r'\[Page (\d+)\]', para).group(1)); only used on a match
page_of(para) ==
    LET i == MinOf(PageMarkerStarts(para))
    IN  int(SubSeq(para, i + 6, PageMarkerEnd(para, i) - 1))

\* re.sub(r'\[Page \d+\]\s*', '', para)
strip_page_markers(para) ==
    LET n == Len(para)
        Covered(j) == \E i \in PageMarkerStarts(para) :
                          /\ i <= j
                          /\ \/ j <= PageMarkerEnd(para, i)
                             \/ \A k \in (PageMarkerEnd(para, i) + 1)..j : para[k] \in WS
    IN  KeepIdx(para, {j \in 1..n : ~Covered(j)}, IdChar(para), 1, n)

get_overlap_text(text, overlap_size) ==
    IF Len(text) <= overlap_size THEN text
    ELSE LET overlap == Tail_(text, overlap_size)
             space_idx == find(overlap, " ")
         IN  IF space_idx > 0 /\ space_idx < Len(overlap) \div 2
             THEN SubSeq(overlap, space_idx + 2, Len(overlap))
             ELSE overlap

\* re.split(r'(?<=[.!?])\s+', paragraph): the cut points are the maximal
\* whitespace runs that start right after a sentence-ending character
RECURSIVE split_sentences(_, _)
split_sentences(s, from) ==
    LET n == Len(s)
        Cut == {i \in (IF from > 2 THEN from ELSE 2)..n :
                    s[i] \in WS /\ s[i - 1] \in SENTENCE_END}
    IN  IF Cut = {} THEN << SubSeq(s, from, n) >>
        ELSE LET i == MinOf(Cut)
                 After == {j \in i..n : s[j] \notin WS}
                 nxt == IF After = {} THEN n + 1 ELSE MinOf({j \in After : j > i})
             IN  << SubSeq(s, from, i - 1) >> \o split_sentences(s, nxt)

\* str.split(): the maximal runs of non-whitespace characters
RECURSIVE split_words(_, _)
split_words(s, from) ==
    LET n == Len(s)
        Start == {i \in from..n : s[i] \notin WS}
    IN  IF Start = {} THEN << >>
        ELSE LET i == MinOf(Start)
                 Stop == {j \in i..n : s[j] \in WS}
                 e == IF Stop = {} THEN n ELSE MinOf(Stop) - 1
             IN  << SubSeq(s, i, e) >> \o split_words(s, e + 1)

\* the word loop of split_long_paragraph (lines 151-161); st = [chunks, word_chunk]
RECURSIVE word_loop(_, _, _, _)
word_loop(words, k, st, chunk_size) ==
    IF k > Len(words) THEN st
    ELSE LET word == words[k]
             nst == IF Len(st.word_chunk) + Len(word) > chunk_size
                    THEN IF st.word_chunk # << >>
                         THEN [chunks |-> Append(st.chunks, strip(st.word_chunk)),
                               word_chunk |-> word]
                         ELSE st
                    ELSE [st EXCEPT !.word_chunk =
                             IF st.word_chunk # << >>
                             THEN st.word_chunk \o << " " >> \o word
                             ELSE word]
         IN  word_loop(words, k + 1, nst, chunk_size)

\* lines 150-161: what the word loop leaves for the sentence loop
after_words(w, st) ==
    [chunks |-> w.chunks,
     current_chunk |-> IF w.word_chunk # << >> THEN w.word_chunk ELSE st.current_chunk]

\* the sentence loop of split_long_paragraph; st = [chunks, current_chunk]
RECURSIVE sentence_loop(_, _, _, _, _)
sentence_loop(sentences, k, st, chunk_size, chunk_overlap) ==
    IF k > Len(sentences) THEN st
    ELSE LET sentence == sentences[k]
             nst ==
               IF Len(st.current_chunk) + Len(sentence) > chunk_size
               THEN IF st.current_chunk # << >>
                    THEN [chunks |-> Append(st.chunks, strip(st.current_chunk)),
                          current_chunk |->
                              get_overlap_text(st.current_chunk, chunk_overlap)
                                  \o << " " >> \o sentence]
                    ELSE after_words(word_loop(split_words(sentence, 1), 1,
                                               [chunks |-> st.chunks,
                                                word_chunk |-> << >>],
                                               chunk_size),
                                     st)
               ELSE [st EXCEPT !.current_chunk =
                        IF st.current_chunk # << >>
                        THEN st.current_chunk \o << " " >> \o sentence
                        ELSE sentence]
         IN  sentence_loop(sentences, k + 1, nst, chunk_size, chunk_overlap)

\* lines 165-168: `if current_chunk: chunks.append(current_chunk.strip())`
after_sentences(st) ==
    IF st.current_chunk # << >>
    THEN Append(st.chunks, strip(st.current_chunk))
    ELSE st.chunks

split_long_paragraph(paragraph, chunk_size, chunk_overlap) ==
    after_sentences(sentence_loop(split_sentences(paragraph, 1), 1,
                                  [chunks |-> << >>, current_chunk |-> << >>],
                                  chunk_size, chunk_overlap))

\* page_number None is modelled as 0 (add_chunks stores `page_number or 0`)
NoPage == 0

\* the chunks of pcs appended to chunks, indexed by len(chunks) as they go
RECURSIVE append_para_chunks(_, _, _, _)
append_para_chunks(chunks, pcs, k, page) ==
    IF k > Len(pcs) THEN chunks
    ELSE append_para_chunks(
             Append(chunks, [content |-> strip(pcs[k]),
                             chunk_index |-> Len(chunks),
                             page_number |-> page]),
             pcs, k + 1, page)

\* lines 45-49: the page marker of a paragraph sets the current page and is
\* removed from the paragraph
page_and_para(raw, current_page) ==
    IF PageMarkerStarts(raw) # {}
    THEN [page |-> page_of(raw), para |-> strip_page_markers(raw)]
    ELSE [page |-> current_page, para |-> raw]

\* lines 51-79: one paragraph; st = [chunks, current_chunk, current_page]
paragraph_step(st, pp, chunk_size, chunk_overlap) ==
    IF Len(st.current_chunk) + Len(pp.para) > chunk_size
    THEN IF st.current_chunk # << >>
         THEN [chunks |-> Append(st.chunks,
                             [content |-> strip(st.current_chunk),
                              chunk_index |-> Len(st.chunks),
                              page_number |-> pp.page]),
               current_chunk |->
                   get_overlap_text(st.current_chunk, chunk_overlap)
                       \o << " " >> \o pp.para,
               current_page |-> pp.page]
         ELSE [chunks |-> append_para_chunks(st.chunks,
                             split_long_paragraph(pp.para, chunk_size, chunk_overlap),
                             1, pp.page),
               current_chunk |-> << >>,
               current_page |-> pp.page]
    ELSE [chunks |-> st.chunks,
          current_chunk |-> IF st.current_chunk # << >>
                            THEN st.current_chunk \o << "\n", "\n" >> \o pp.para
                            ELSE pp.para,
          current_page |-> pp.page]

\* the paragraph loop of chunk_text
RECURSIVE paragraph_loop(_, _, _, _, _)
paragraph_loop(paragraphs, k, st, chunk_size, chunk_overlap) ==
    IF k > Len(paragraphs) THEN st
    ELSE paragraph_loop(paragraphs, k + 1,
                        paragraph_step(st, page_and_para(paragraphs[k], st.current_page),
                                       chunk_size, chunk_overlap),
                        chunk_size, chunk_overlap)

\* lines 81-87: the last chunk is kept when it has MIN_CHUNK_SIZE characters
after_paragraphs(st) ==
    IF st.current_chunk # << >> /\ Len(strip(st.current_chunk)) >= MIN_CHUNK_SIZE
    THEN Append(st.chunks, [content |-> strip(st.current_chunk),
                            chunk_index |-> Len(st.chunks),
                            page_number |-> st.current_page])
    ELSE st.chunks

chunk_text_sized(text, chunk_size, chunk_overlap) ==
    IF Len(strip(text)) = 0 THEN << >>
    ELSE after_paragraphs(
             paragraph_loop(split_into_paragraphs(clean_text(text)), 1,
                            [chunks |-> << >>, current_chunk |-> << >>,
                             current_page |-> NoPage],
                            chunk_size, chunk_overlap))

chunk_text(text) == chunk_text_sized(text, DEFAULT_CHUNK_SIZE, DEFAULT_CHUNK_OVERLAP)

(***************************************************************************)
(* Bounds of the model                                                     *)
(***************************************************************************)
MaxUsers == 2
MaxDocs == 2
MaxRequests == 3

Users == 1..MaxUsers
DocIds == 1..MaxDocs

(***************************************************************************)
(* Input texts: what extraction yields for an uploaded file, or the text   *)
(* handed to the text / website / YouTube paths                            *)
(***************************************************************************)
\* whitespace only
T_BLANK == << " ", "\n", " " >>
\* one paragraph between MIN_CHUNK_SIZE and DEFAULT_CHUNK_SIZE
T_ONE == Rep("a", 60) \o << ".", " " >> \o Rep("b", 60)
\* non-blank, 150 characters, fewer than MIN_CHUNK_SIZE (91) once clean_text
\* has collapsed its whitespace
T_SPARSE == Rep("a", 50) \o Rep(" ", 60) \o Rep("b", 40)
\* two sentences, longer than DEFAULT_CHUNK_SIZE together
T_TWO == Rep("a", 598) \o << ".", " " >> \o Rep("b", 600)

Texts == << T_BLANK, T_ONE, T_SPARSE, T_TWO >>
TextIds == 1..Len(Texts)
\* the index of T_ONE in Texts
ONE == CHOOSE t \in TextIds : Texts[t] = T_ONE

\* len(text) and len(text.strip()) of every input text
TextLen ==
    << Len(T_BLANK), Len(T_ONE), Len(T_SPARSE), Len(T_TWO) >>
StrippedLen ==
    << Len(strip(T_BLANK)), Len(strip(T_ONE)), Len(strip(T_SPARSE)),
       Len(strip(T_TWO)) >>

\* chunk_text of every input text
ChunkTable ==
    << chunk_text(T_BLANK), chunk_text(T_ONE), chunk_text(T_SPARSE),
       chunk_text(T_TWO) >>

(***************************************************************************)
(* State                                                                   *)
(***************************************************************************)
VARIABLES
    documents,      \* committed rows of table documents, by id
    chunk_rows,     \* committed rows of table document_chunks
    vectors,        \* entities of the Zilliz collection DocQueryChunks
    weaviate_objects, \* objects of the Weaviate collection
    seq,            \* id generators: the documents sequence and the store's autoId
    nreq,           \* number of requests served so far
    req,            \* the request in flight: handler position and locals
    sdoc,           \* the Document object of the request's session
    srows,          \* DocumentChunk objects added in the request's session
    llm,            \* the generate_response call in flight
    qry,            \* the query in flight and the records the queries stored
    emb,            \* the get_embeddings call in flight
    mil,            \* the Zilliz collections, the adapter and its callers
    chk,            \* the chunk_text call in flight
    chat,           \* the chat session, its messages and the request on it
    otp             \* the OTP storage and the verification in flight

ingVars == << documents, chunk_rows, vectors, weaviate_objects, seq, nreq,
              req, sdoc, srows >>
\* what the steps of one component leave alone
nonIngVars == << llm, qry, emb, mil, chk, chat, otp >>
nonLLMVars == << ingVars, qry, emb, mil, chk, chat, otp >>
nonQryVars == << ingVars, llm, emb, mil, chk, chat, otp >>
nonEmbVars == << ingVars, llm, qry, mil, chk, chat, otp >>
nonMilVars == << ingVars, llm, qry, emb, chk, chat, otp >>
nonChkVars == << ingVars, llm, qry, emb, mil, chat, otp >>
nonChatVars == << ingVars, llm, qry, emb, mil, chk, otp >>
nonOtpVars == << ingVars, llm, qry, emb, mil, chk, chat >>

\* no chunk_text call in flight
IdleChk == [pc |-> "idle", text |-> << >>, chunks |-> << >>]
\* a chat session as create_session leaves it, and no request on it
IdleChat ==
    [pc |-> "idle", messages |-> << >>, message_count |-> 0, added |-> << >>,
     updates |-> 0, context |-> << >>, chat_history |-> << >>, outcome |-> "none", sends |-> 0]

MaxIssues == 2
MaxTime == 12

Emails == {"a@x", "b@x"}
NoOtp == [otp |-> "<absent>", expires_at |-> 0, attempts |-> 0, issue |-> 0]
NoVerdict == [email |-> "", otp |-> "", stored |-> NoOtp, ok |-> FALSE, message |-> ""]

\* email_service.py line 15: the empty _otp_store, at minute 0; compared[i]
\* and accepted[i] log the comparisons and acceptances of the i-th OTP issued
IdleOtp ==
    [pc |-> "idle", store |-> [e \in Emails |-> NoOtp], now |-> 0,
     compared |-> << >>, accepted |-> << >>, verdict |-> NoVerdict]
\* the components that no specification but their own moves
OthersIdle == chk = IdleChk /\ chat = IdleChat /\ otp = IdleOtp

\* no query in flight and no record stored by one
IdleQry ==
    [pc |-> "idle", path |-> "none", retrieval |-> "none", results |-> << >>,
     generated |-> FALSE, sources |-> << >>, confidence |-> 0,
     response |-> "none", pending |-> << >>, stored |-> << >>, served |-> 0]
\* no get_embeddings call in flight
IdleEmb == [pc |-> "idle", texts |-> 0, data |-> << >>, result |-> << >>]
MaxAdapters == 2

\* one MilvusService singleton per worker process
Adapters == 1..MaxAdapters

COLLECTION_NAME == "DocQueryChunks"

\* the collection as _ensure_collection creates it
FixedCollection == [name |-> COLLECTION_NAME, schema |-> "fixed"]

NoReply == [status |-> 0, code |-> 0, message |-> "", has |-> FALSE]

\* MilvusService.__init__, and an adapter between two calls
IdleAdapter(connected) ==
    [connected |-> connected, op |-> "none", pc |-> "idle", saw |-> "none",
     create_sent |-> FALSE, reply |-> NoReply, result |-> "none", exc |-> ""]

MilState(collections) ==
    [collections |-> collections, adapter |-> [p \in Adapters |-> IdleAdapter(FALSE)]]

\* no adapter connected yet, the collection in place
IdleMil == MilState({FixedCollection})

\* app/models/document.py DocumentStatus
PENDING == "pending"
PROCESSING == "processing"
COMPLETED == "completed"
FAILED == "failed"
DocumentStatus == {PENDING, PROCESSING, COMPLETED, FAILED}

NoDoc == [status |-> "none"]
\* a Document object passed to session.delete()
DeletedDoc == [status |-> "deleted"]

Document(user_id, status, text) ==
    [user_id |-> user_id, status |-> status, error_message |-> "",
     chunk_count |-> 0, text |-> text]

DocumentChunk(id, document_id, chunk_index) ==
    [id |-> id, document_id |-> document_id, chunk_index |-> chunk_index,
     weaviate_id |-> 0]

(***************************************************************************)
(* Exceptions: type, message (what str(e) gives) and raising site          *)
(***************************************************************************)
NoExc == [type |-> "none", msg |-> "", site |-> "none"]
Exc(type, msg, site) == [type |-> type, msg |-> msg, site |-> site]
str(e) == e.msg

FlushError(site) == Exc("DBAPIError", "database error", site)
HTTPException(code, detail) == Exc("HTTPException", detail, code)

(***************************************************************************)
(* Request in flight                                                       *)
(***************************************************************************)
NoIds == [given |-> FALSE, ids |-> {}]

IdleReq ==
    [kind |-> "none", pc |-> "idle", user |-> 0, doc |-> 0,
     has_content |-> FALSE, chunks |-> << >>, milvus_ids |-> << >>,
     exc |-> NoExc, raised |-> NoExc,
     persisted |-> FALSE, embedded |-> FALSE, acked |-> FALSE,
     vec_deleted |-> FALSE, document_ids |-> NoIds, hits |-> {}]

FileKinds == {"upload", "reprocess"}
DirectKinds == {"text", "website", "youtube"}
IngestKinds == FileKinds \cup DirectKinds

CanStart == req.pc = "idle" /\ nreq < MaxRequests

NewReq(kind, user, doc) ==
    [IdleReq EXCEPT !.kind = kind, !.user = user, !.doc = doc]

(***************************************************************************)
(* app/services/llm_service.py                                             *)
(*                                                                         *)
(* A Python str is a sequence of pieces: a literal of the source is one    *)
(* piece, chunk content is one piece per character.  None and a missing    *)
(* dict key are the values None and Absent.                                *)
(***************************************************************************)
None == "<None>"
Absent == "<absent>"

\* `not v` for a value that is None or a str
Falsy(v) == v \in {None, ""}

\* dict.get(key) and dict.get(key, default)
get(d, key) == IF d[key] = Absent THEN None ELSE d[key]
get_default(d, key, default) == IF d[key] = Absent THEN default ELSE d[key]

SettingsKeys ==
    {"llm_provider", "llm_model", "openai_api_key", "anthropic_api_key",
     "gemini_api_key"}

\* `if user_settings:` is false for None and for the empty dict
HasSettings(user_settings) ==
    /\ user_settings.given
    /\ \E k \in SettingsKeys : user_settings[k] # Absent

\* user_settings=None
NoSettings ==
    [given |-> FALSE, llm_provider |-> Absent, llm_model |-> Absent,
     openai_api_key |-> Absent, anthropic_api_key |-> Absent,
     gemini_api_key |-> Absent]

\* lines 42-62: provider, model and credential before validation; env holds
\* settings.GROQ_API_KEY and settings.GEMINI_API_KEY
selected(user_settings, env) ==
    IF ~HasSettings(user_settings)
    THEN [provider |-> "groq", model |-> "llama-3.3-70b-versatile",
          api_key |-> env.GROQ_API_KEY]
    ELSE LET provider == get_default(user_settings, "llm_provider", "groq")
         IN  [provider |-> provider,
              model |-> get_default(user_settings, "llm_model",
                                    "llama-3.3-70b-versatile"),
              api_key |->
                  CASE provider = "openai" -> get(user_settings, "openai_api_key")
                    [] provider = "anthropic" -> get(user_settings, "anthropic_api_key")
                    [] provider = "gemini" ->
                           IF Falsy(get(user_settings, "gemini_api_key"))
                           THEN env.GEMINI_API_KEY
                           ELSE get(user_settings, "gemini_api_key")
                    [] OTHER -> env.GROQ_API_KEY]

\* a fallback that keeps the model the caller asked for
validated_keeps_model(sel, env) ==
    IF Falsy(sel.api_key) /\ sel.provider # "groq"
    THEN [provider |-> "groq", model |-> sel.model, api_key |-> env.GROQ_API_KEY]
    ELSE sel

\* lines 65-69
validated(sel, env) ==
    IF Falsy(sel.api_key) /\ sel.provider # "groq"
    THEN [provider |-> "groq", model |-> "llama-3.3-70b-versatile",
          api_key |-> env.GROQ_API_KEY]
    ELSE sel

\* values a function returns or raises
Str(pieces) == [type |-> "str", text |-> pieces]
NoneValue == [type |-> "NoneType", text |-> << >>]
Returned(v) == [raised |-> FALSE, value |-> v]
Raised(exc_type) == [raised |-> TRUE, value |-> Str(<< exc_type >>)]

\* "sep".join(parts)
RECURSIVE join(_, _)
join(parts, sep) ==
    IF parts = << >> THEN << >>
    ELSE IF Len(parts) = 1 THEN parts[1]
    ELSE parts[1] \o sep \o join(Tail(parts), sep)

\* str(i) for the ranks that can occur
ToStr(i) == << "1", "2", "3", "4", "5", "6", "7", "8", "9" >>[i]

\* lines 279-285: the part of the fallback answer for the chunk of rank i
fallback_part(chunk, i) ==
    << "\n**Source ", ToStr(i), ": ",
       get_default(chunk, "document_name", "Unknown document"), "**\n" >>
    \o SubSeq(chunk.content, 1, MinOf({500, Len(chunk.content)}))
    \o (IF Len(chunk.content) > 500 THEN << ".", ".", "." >> ELSE << >>)
    \o << "\n" >>

\* lines 270-292
_fallback_response(chunks) ==
    IF chunks = << >>
    THEN << "I couldn't find any relevant information in your documents to answer this question." >>
    ELSE join(<< << "Based on your documents, I found the following relevant information:\n" >> >>
              \o [i \in 1..MinOf({3, Len(chunks)}) |-> fallback_part(chunks[i], i)]
              \o << << "\n*Note: AI-powered response generation is not available. Please configure an LLM provider for more intelligent answers.*" >> >>,
              << "\n" >>)

\* what the HTTP call to a provider can yield
Timeout == [kind |-> "timeout", status |-> "", json |-> FALSE, has_items |-> FALSE,
            text |-> Absent]
ConnectError == [Timeout EXCEPT !.kind = "connect_error"]
Response(status, json, has_items, text) ==
    [kind |-> "response", status |-> status, json |-> json, has_items |-> has_items,
     text |-> text]
ProviderReplies ==
    {Timeout, ConnectError,
     Response("500", FALSE, FALSE, Absent),
     Response("200", FALSE, FALSE, Absent),
     Response("200", TRUE, FALSE, Absent),
     Response("200", TRUE, TRUE, Absent),
     Response("200", TRUE, TRUE, None),
     Response("200", TRUE, TRUE, "generated answer")}

\* client.post, raise_for_status and response.json(), common to the providers
transport(reply) ==
    IF reply.kind = "timeout" THEN Raised("TimeoutException")
    ELSE IF reply.kind = "connect_error" THEN Raised("ConnectError")
    ELSE IF reply.status # "200" THEN Raised("HTTPStatusError")
    ELSE IF ~reply.json THEN Raised("JSONDecodeError")
    ELSE Returned(NoneValue)

\* a JSON value as the Python value it decodes to
value_of(text) == IF text = None THEN NoneValue ELSE Str(<< text >>)

\* lines 136-140, 158-162: data["choices"][0]["message"]["content"];
\* lines 180-184: data["content"][0]["text"]
_generate_indexed(reply) ==
    IF transport(reply).raised THEN transport(reply)
    ELSE IF ~reply.has_items \/ reply.text = Absent THEN Raised("KeyError")
    ELSE Returned(value_of(reply.text))

\* lines 204-217
_generate_gemini(reply) ==
    IF transport(reply).raised THEN transport(reply)
    ELSE IF reply.has_items
    THEN Returned(IF reply.text = Absent THEN Str(<< "" >>) ELSE value_of(reply.text))
    ELSE Returned(Str(<< "No response generated" >>))

\* the providers _generate_async dispatches to (lines 105-112)
KnownProviders == {"groq", "openai", "anthropic", "gemini"}

\* lines 94-118
_generate_async(provider, reply) ==
    IF provider \in {"groq", "openai", "anthropic"} THEN _generate_indexed(reply)
    ELSE IF provider = "gemini" THEN _generate_gemini(reply)
    ELSE Returned(Str(<< "LLM provider not supported" >>))

(***************************************************************************)
(* generate_response as a state machine: the call, the provider's reply,   *)
(* the return                                                              *)
(***************************************************************************)
\* evidence handed to generate_response (query_service.py lines 60-78)
Evidence(document_name, content) ==
    [document_name |-> document_name, content |-> content]
EvidenceLists ==
    {<< >>,
     << Evidence("geo.txt", Rep("p", 20)) >>,
     << Evidence("a.pdf", Rep("q", 500)), Evidence(Absent, Rep("r", 501)),
        Evidence("c.txt", Rep("s", 20)), Evidence("d.txt", Rep("t", 20)) >>}

UserSettings ==
    {NoSettings} \cup
    [given : {TRUE},
     llm_provider : {Absent, "groq", "openai", "anthropic", "gemini", "mistral"},
     llm_model : {Absent, "gpt-4o"},
     openai_api_key : {Absent, "", "sk-user"},
     anthropic_api_key : {Absent, "sk-ant-user"},
     gemini_api_key : {Absent, "AIza-user"}]

Environments ==
    [GROQ_API_KEY : {None, "", "gsk-system"}, GEMINI_API_KEY : {None, "AIza-system"}]

IdleLLM(env) ==
    [pc |-> "idle", env |-> env, user_settings |-> NoSettings, chunks |-> << >>,
     provider |-> "", model |-> "", api_key |-> None,
     called |-> FALSE, reply |-> Timeout, result |-> NoneValue]

\* lines 41-77: up to the provider call, or the return at line 73
generate_response(user_settings, context_chunks) ==
    /\ llm.pc = "idle"
    /\ LET v == validated(selected(user_settings, llm.env), llm.env)
           l == [llm EXCEPT !.user_settings = user_settings,
                            !.chunks = context_chunks,
                            !.provider = v.provider, !.model = v.model,
                            !.api_key = v.api_key]
       IN  llm' = IF Falsy(v.api_key)
                  THEN [l EXCEPT !.pc = "returned",
                                 !.result = Str(_fallback_response(context_chunks))]
                  ELSE [l EXCEPT !.pc = "awaiting"]
    /\ UNCHANGED nonLLMVars

\* lines 79-92: the provider answers, times out or cannot be reached; no
\* request is sent for a provider _generate_async does not know
provider_reply(reply) ==
    /\ llm.pc = "awaiting"
    /\ LET r == _generate_async(llm.provider, reply)
       IN  llm' = [llm EXCEPT !.pc = "returned",
                              !.called = llm.provider \in KnownProviders,
                              !.reply = reply,
                              !.result = IF r.raised
                                         THEN Str(_fallback_response(llm.chunks))
                                         ELSE r.value]
    /\ UNCHANGED nonLLMVars

\* the caller has the answer; the service is stateless between calls
llm_return ==
    /\ llm.pc = "returned"
    /\ llm' = IdleLLM(llm.env)
    /\ UNCHANGED nonLLMVars

\* records written before this deployment: the reprocess endpoint exists for
\* rows left in PENDING or FAILED
LegacyDocs ==
    {[d \in DocIds |-> NoDoc]} \cup
    {[d \in DocIds |-> IF d = 1
                       THEN [Document(1, s, ONE) EXCEPT
                                !.error_message = IF s = FAILED THEN "old error" ELSE ""]
                       ELSE NoDoc] : s \in {PENDING, FAILED}}

LegacyWeaviateObjects ==
    {[weaviate_id |-> u, document_id |-> u, user_id |-> u, chunk_index |-> 0] :
        u \in {1, 2}}
    \cup {[weaviate_id |-> 3, document_id |-> 3, user_id |-> 1, chunk_index |-> 0]}

Init ==
    /\ documents \in LegacyDocs
    /\ chunk_rows = {}
    /\ vectors = {}
    /\ weaviate_objects = LegacyWeaviateObjects
    /\ seq = [doc |-> IF documents[1] = NoDoc THEN 0 ELSE 1, vec |-> 0]
    /\ nreq = 0
    /\ req = IdleReq
    /\ sdoc = NoDoc
    /\ srows = {}
    /\ llm = IdleLLM([GROQ_API_KEY |-> "gsk-system", GEMINI_API_KEY |-> None])
    /\ qry = IdleQry
    /\ emb = IdleEmb
    /\ mil = IdleMil
    /\ OthersIdle

Raise(r, e) == [r EXCEPT !.pc = "raised", !.raised = e]

(***************************************************************************)
(* app/services/document_service.py: upload_document                       *)
(***************************************************************************)
\* _check_duplicate: a document of the user with the same content hash
check_duplicate(user_id, t) ==
    \E d \in DocIds : /\ documents[d] # NoDoc
                      /\ documents[d].user_id = user_id
                      /\ documents[d].text = t

upload_document(user_id, t, storage_ok, flush_ok) ==
    /\ CanStart
    /\ nreq' = nreq + 1
    /\ srows' = {}
    /\ UNCHANGED << documents, chunk_rows, vectors, weaviate_objects >>
    /\ IF check_duplicate(user_id, t)
       THEN /\ req' = Raise(NewReq("upload", user_id, 0),
                            HTTPException("400", "This document has already been uploaded"))
            /\ sdoc' = NoDoc
            /\ UNCHANGED seq
       ELSE IF ~storage_ok
       THEN /\ req' = Raise(NewReq("upload", user_id, 0),
                            Exc("HTTPStatusError", "storage upload failed", "upload_file"))
            /\ sdoc' = NoDoc
            /\ UNCHANGED seq
       ELSE /\ seq.doc < MaxDocs
            /\ seq' = [seq EXCEPT !.doc = seq.doc + 1]
            /\ sdoc' = Document(user_id, PENDING, t)
            /\ req' = IF flush_ok
                      THEN [NewReq("upload", user_id, seq.doc + 1) EXCEPT
                               !.pc = "begin", !.has_content = TRUE]
                      ELSE Raise(NewReq("upload", user_id, seq.doc + 1), FlushError("upload_document:111"))
    /\ UNCHANGED nonIngVars

(***************************************************************************)
(* app/api/documents.py: reprocess_document                                *)
(***************************************************************************)
\* get_document: the row with this id owned by this user, else 404
get_document(document_id, user_id) ==
    IF documents[document_id] # NoDoc /\ documents[document_id].user_id = user_id
    THEN documents[document_id]
    ELSE NoDoc

NotFound == HTTPException("404", "Document not found")

\* a guard that lets a COMPLETED document through as well
reprocess_allowed_completed(status) == status \in {FAILED, PENDING, COMPLETED}

\* the guard of reprocess_document (line 149)
reprocess_allowed(status) == status \in {FAILED, PENDING}

reprocess_document(document_id, user_id, flush_ok) ==
    /\ CanStart
    /\ nreq' = nreq + 1
    /\ srows' = {}
    /\ UNCHANGED << documents, chunk_rows, vectors, weaviate_objects, seq >>
    /\ LET document == get_document(document_id, user_id)
           r == NewReq("reprocess", user_id, document_id)
       IN  IF document = NoDoc
           THEN /\ req' = Raise(r, NotFound)
                /\ sdoc' = NoDoc
           ELSE IF ~reprocess_allowed(document.status)
           THEN /\ req' = Raise(r, HTTPException("400",
                              "Only failed or pending documents can be reprocessed"))
                /\ sdoc' = document
           ELSE /\ sdoc' = [document EXCEPT !.status = PENDING, !.error_message = ""]
                /\ req' = IF flush_ok THEN [r EXCEPT !.pc = "begin"]
                          ELSE Raise(r, FlushError("reprocess_document:158"))
    /\ UNCHANGED nonIngVars

(***************************************************************************)
(* app/services/document_service.py: process_document                      *)
(***************************************************************************)
\* lines 133-134
process_begin(flush_ok) ==
    /\ req.kind \in FileKinds
    /\ req.pc = "begin"
    /\ sdoc' = [sdoc EXCEPT !.status = PROCESSING]
    /\ req' = IF flush_ok THEN [req EXCEPT !.pc = "extract"]
              ELSE [req EXCEPT !.pc = "except", !.exc = FlushError("process_document:134")]
    /\ UNCHANGED << documents, chunk_rows, vectors, weaviate_objects, seq, nreq, srows >>
    /\ UNCHANGED nonIngVars

\* lines 136-145: extract_text_from_bytes / extract_text_from_file, then the
\* check for empty text
process_extract(extract_ok) ==
    /\ req.kind \in FileKinds
    /\ req.pc = "extract"
    /\ LET t == sdoc.text
       IN  req' = IF ~extract_ok
                  THEN [req EXCEPT !.pc = "except",
                           !.exc = Exc("IOError", "cannot read file", "extract")]
                  ELSE IF TextLen[t] = 0 \/ StrippedLen[t] = 0
                  THEN [req EXCEPT !.pc = "except",
                           !.exc = Exc("ValueError",
                                       "No text could be extracted from the document",
                                       "process_document:145")]
                  ELSE [req EXCEPT !.pc = "chunk"]
    /\ UNCHANGED << documents, chunk_rows, vectors, weaviate_objects, seq, nreq, sdoc, srows >>
    /\ UNCHANGED nonIngVars

\* the chunk_index values chunk_text assigned, in emission order
IndexesOf(chunks) == [i \in 1..Len(chunks) |-> chunks[i].chunk_index]
ChunkIndexes(t) == IndexesOf(ChunkTable[t])

\* the id of a new DocumentChunk row is a surrogate key of which only the
\* distinctness is observable; new rows take the ids above the largest one
\* among the rows stored and pending
LastRowId(rows) == IF rows = {} THEN 0 ELSE MaxOf({r.id : r \in rows})

\* rows numbered from 1
NewChunkRows_from_one(document_id, chunks, first_id) ==
    {DocumentChunk(first_id + i, document_id, i) : i \in 1..Len(chunks)}

\* the DocumentChunk rows built by `for i, chunk_data in enumerate(chunks)`
NewChunkRows(document_id, chunks, first_id) ==
    {DocumentChunk(first_id + i, document_id, i - 1) : i \in 1..Len(chunks)}

\* lines 147-163
process_chunk(flush_ok) ==
    /\ req.kind \in FileKinds
    /\ req.pc = "chunk"
    /\ LET chunks == ChunkIndexes(sdoc.text)
       IN  /\ srows' = srows \cup
                  NewChunkRows(req.doc, chunks, LastRowId(chunk_rows \cup srows))
           /\ req' = IF flush_ok
                     THEN [req EXCEPT !.pc = "embed", !.chunks = chunks, !.persisted = TRUE]
                     ELSE [req EXCEPT !.pc = "except", !.chunks = chunks,
                              !.exc = FlushError("process_document:163")]
    /\ UNCHANGED << documents, chunk_rows, vectors, weaviate_objects, seq, nreq, sdoc >>
    /\ UNCHANGED nonIngVars

(***************************************************************************)
(* app/services/milvus_service.py: add_chunks                              *)
(***************************************************************************)
\* a caller that goes on to the status write whatever add_chunks did
after_add_chunks_ignored(ok) == "finalize"

\* where the caller continues after add_chunks: on its return or in its
\* exception handler
after_add_chunks(ok) == IF ok THEN "finalize" ELSE "except"

\* lines 198-206: get_embeddings for the chunk texts
add_chunks_embed(embed_ok) ==
    /\ req.kind \in IngestKinds
    /\ req.pc = "embed"
    /\ req' = IF embed_ok THEN [req EXCEPT !.pc = "insert", !.embedded = TRUE]
              ELSE [req EXCEPT !.pc = after_add_chunks(FALSE),
                       !.exc = Exc("HTTPStatusError", "embedding request failed", "embed")]
    /\ UNCHANGED << documents, chunk_rows, vectors, weaviate_objects, seq, nreq, sdoc, srows >>
    /\ UNCHANGED nonIngVars

\* lines 219-227: the record inserted for one chunk
milvus_row(id, chunk_index, document_id, user_id) ==
    [id |-> id, document_id |-> document_id, user_id |-> user_id,
     chunk_index |-> chunk_index]

\* lines 243-245: result["data"]["insertIds"] as the reply gives it, one id
\* per record, or no list
InsertedIds(ids, ids_listed) == IF ids_listed THEN ids ELSE << >>

\* lines 213-248: /entities/insert and the ids of its reply
add_chunks_insert(insert_ok, ids_listed) ==
    /\ req.kind \in IngestKinds
    /\ req.pc = "insert"
    /\ LET n == Len(req.chunks)
       IN  IF insert_ok
           THEN /\ vectors' = vectors \cup
                       {milvus_row(seq.vec + i, req.chunks[i], req.doc, sdoc.user_id) :
                           i \in 1..n}
                /\ seq' = [seq EXCEPT !.vec = seq.vec + n]
                /\ req' = [req EXCEPT !.pc = after_add_chunks(TRUE), !.acked = TRUE,
                              !.milvus_ids =
                                  InsertedIds([i \in 1..n |-> seq.vec + i], ids_listed)]
           ELSE /\ req' = [req EXCEPT !.pc = after_add_chunks(FALSE),
                              !.exc = Exc("Exception", "Zilliz API error", "insert")]
                /\ UNCHANGED << vectors, seq >>
    /\ UNCHANGED << documents, chunk_rows, weaviate_objects, nreq, sdoc, srows >>
    /\ UNCHANGED nonIngVars

\* `if i < len(milvus_ids): chunk.weaviate_id = milvus_ids[i]`
WithMilvusIds(rows, milvus_ids) ==
    {IF r.chunk_index < Len(milvus_ids)
     THEN [r EXCEPT !.weaviate_id = milvus_ids[r.chunk_index + 1]]
     ELSE r : r \in rows}

\* lines 175-186 (the summary that follows is best effort: its failure is
\* logged and changes nothing here)
process_finalize(flush_ok) ==
    /\ req.kind \in FileKinds
    /\ req.pc = "finalize"
    /\ srows' = WithMilvusIds(srows, req.milvus_ids)
    /\ sdoc' = [sdoc EXCEPT !.status = COMPLETED, !.chunk_count = Len(req.chunks)]
    /\ req' = IF flush_ok THEN [req EXCEPT !.pc = "returned"]
              ELSE [req EXCEPT !.pc = "except", !.exc = FlushError("process_document:185")]
    /\ UNCHANGED << documents, chunk_rows, vectors, weaviate_objects, seq, nreq >>
    /\ UNCHANGED nonIngVars

\* lines 200-205: the flush of the handler may raise as well, and then its
\* exception is the one that leaves process_document
process_except(flush_ok) ==
    /\ req.kind \in FileKinds
    /\ req.pc = "except"
    /\ sdoc' = [sdoc EXCEPT !.status = FAILED, !.error_message = str(req.exc)]
    /\ req' = Raise(req, IF flush_ok THEN req.exc ELSE FlushError("process_document:204"))
    /\ UNCHANGED << documents, chunk_rows, vectors, weaviate_objects, seq, nreq, srows >>
    /\ UNCHANGED nonIngVars

(***************************************************************************)
(* app/api/text_upload.py, website_crawl.py, youtube_upload.py: the three  *)
(* handlers run the same pipeline on a text they are handed                *)
(***************************************************************************)
\* the Document each of them creates (status PROCESSING), then flush
direct_create(kind, user_id, t, flush_ok) ==
    /\ seq.doc < MaxDocs
    /\ seq' = [seq EXCEPT !.doc = seq.doc + 1]
    /\ sdoc' = Document(user_id, PROCESSING, t)
    /\ req' = IF flush_ok
              THEN [NewReq(kind, user_id, seq.doc + 1) EXCEPT !.pc = "chunk"]
              ELSE [NewReq(kind, user_id, seq.doc + 1) EXCEPT
                       !.pc = "except", !.exc = FlushError("text_upload:74")]

direct_reject(kind, user_id, detail) ==
    /\ req' = Raise(NewReq(kind, user_id, 0), HTTPException("400", detail))
    /\ sdoc' = NoDoc
    /\ UNCHANGED seq

\* text_upload.py lines 37-77 (flush at line 74)
upload_from_text(user_id, t, flush_ok) ==
    /\ CanStart
    /\ nreq' = nreq + 1
    /\ srows' = {}
    /\ UNCHANGED << documents, chunk_rows, vectors, weaviate_objects >>
    /\ IF StrippedLen[t] = 0
       THEN direct_reject("text", user_id, "Content cannot be empty")
       ELSE direct_create("text", user_id, t, flush_ok)
    /\ UNCHANGED nonIngVars

\* website_crawl.py lines 150-185, once the page has been fetched
crawl_website(user_id, t, flush_ok) ==
    /\ CanStart
    /\ nreq' = nreq + 1
    /\ srows' = {}
    /\ UNCHANGED << documents, chunk_rows, vectors, weaviate_objects >>
    /\ IF TextLen[t] = 0 \/ StrippedLen[t] < 100
       THEN direct_reject("website", user_id,
                          "Could not extract enough text content from this page")
       ELSE direct_create("website", user_id, t, flush_ok)
    /\ UNCHANGED nonIngVars

\* youtube_upload.py lines 148-180, once the transcript has been fetched
upload_from_youtube(user_id, t, flush_ok) ==
    /\ CanStart
    /\ nreq' = nreq + 1
    /\ srows' = {}
    /\ UNCHANGED << documents, chunk_rows, vectors, weaviate_objects >>
    /\ IF TextLen[t] = 0 \/ StrippedLen[t] < 100
       THEN direct_reject("youtube", user_id, "Transcript too short or empty")
       ELSE direct_create("youtube", user_id, t, flush_ok)
    /\ UNCHANGED nonIngVars

\* text_upload.py lines 79-98 (and the same lines of the other two)
direct_chunk(flush_ok) ==
    /\ req.kind \in DirectKinds
    /\ req.pc = "chunk"
    /\ LET chunks == ChunkIndexes(sdoc.text)
       IN  IF Len(chunks) = 0
           THEN /\ req' = [req EXCEPT !.pc = "except",
                              !.exc = Exc("ValueError",
                                          "No content chunks could be created", "chunk")]
                /\ UNCHANGED srows
           ELSE /\ srows' = srows \cup
                       NewChunkRows(req.doc, chunks, LastRowId(chunk_rows \cup srows))
                /\ req' = IF flush_ok
                          THEN [req EXCEPT !.pc = "embed", !.chunks = chunks,
                                   !.persisted = TRUE]
                          ELSE [req EXCEPT !.pc = "except", !.chunks = chunks,
                                   !.exc = FlushError("text_upload:98")]
    /\ UNCHANGED << documents, chunk_rows, vectors, weaviate_objects, seq, nreq, sdoc >>
    /\ UNCHANGED nonIngVars

\* text_upload.py lines 108-123
direct_finalize(flush_ok) ==
    /\ req.kind \in DirectKinds
    /\ req.pc = "finalize"
    /\ srows' = WithMilvusIds(srows, req.milvus_ids)
    /\ sdoc' = [sdoc EXCEPT !.status = COMPLETED, !.chunk_count = Len(req.chunks)]
    /\ req' = IF flush_ok THEN [req EXCEPT !.pc = "returned"]
              ELSE [req EXCEPT !.pc = "except", !.exc = FlushError("text_upload:118")]
    /\ UNCHANGED << documents, chunk_rows, vectors, weaviate_objects, seq, nreq >>
    /\ UNCHANGED nonIngVars

\* text_upload.py lines 125-134
direct_except(flush_ok) ==
    /\ req.kind \in DirectKinds
    /\ req.pc = "except"
    /\ sdoc' = [sdoc EXCEPT !.status = FAILED, !.error_message = str(req.exc)]
    /\ req' = Raise(req, IF flush_ok THEN HTTPException("500", str(req.exc))
                         ELSE FlushError("text_upload:130"))
    /\ UNCHANGED << documents, chunk_rows, vectors, weaviate_objects, seq, nreq, srows >>
    /\ UNCHANGED nonIngVars

(***************************************************************************)
(* app/services/document_service.py: delete_document                       *)
(***************************************************************************)
\* line 264
delete_document(document_id, user_id) ==
    /\ CanStart
    /\ nreq' = nreq + 1
    /\ srows' = {}
    /\ UNCHANGED << documents, chunk_rows, vectors, weaviate_objects, seq >>
    /\ LET document == get_document(document_id, user_id)
           r == NewReq("delete", user_id, document_id)
       IN  IF document = NoDoc
           THEN req' = Raise(r, NotFound) /\ sdoc' = NoDoc
           ELSE req' = [r EXCEPT !.pc = "delete_chunks"] /\ sdoc' = document
    /\ UNCHANGED nonIngVars

\* milvus_service.py delete_document_chunks: entities/delete by filter
delete_document_chunks(document_id) ==
    {v \in vectors : v.document_id # document_id}

\* lines 266-270: a failure of the vector delete is logged and skipped
delete_vectors(delete_ok) ==
    /\ req.kind = "delete"
    /\ req.pc = "delete_chunks"
    /\ vectors' = IF delete_ok THEN delete_document_chunks(req.doc) ELSE vectors
    /\ req' = [req EXCEPT !.pc = "delete_row", !.vec_deleted = delete_ok]
    /\ UNCHANGED << documents, chunk_rows, weaviate_objects, seq, nreq, sdoc, srows >>
    /\ UNCHANGED nonIngVars

\* lines 272-286: the file delete (its failure is logged and skipped), then
\* session.delete(document) and flush
delete_row(flush_ok) ==
    /\ req.kind = "delete"
    /\ req.pc = "delete_row"
    /\ sdoc' = DeletedDoc
    /\ req' = IF flush_ok THEN [req EXCEPT !.pc = "returned"]
              ELSE Raise(req, FlushError("delete_document:284"))
    /\ UNCHANGED << documents, chunk_rows, vectors, weaviate_objects, seq, nreq, srows >>
    /\ UNCHANGED nonIngVars

(***************************************************************************)
(* Vector search                                                           *)
(***************************************************************************)
\* `if document_ids is not None:`
Truthy_is_not_None(document_ids) == document_ids.given

\* `if document_ids:` is false for None and for the empty list
Truthy(document_ids) == document_ids.given /\ document_ids.ids # {}

\* a filter on document_ids alone
milvus_filter_no_user(rec, user_id, document_ids) ==
    Truthy(document_ids) => rec.document_id \in document_ids.ids

\* milvus_service.py lines 274-278: the filter expression sent to the store
milvus_filter(rec, user_id, document_ids) ==
    /\ rec.user_id = user_id
    /\ Truthy(document_ids) => rec.document_id \in document_ids.ids

\* a where filter of the user_id operand alone
weaviate_where_user_only(obj, user_id, document_ids) ==
    obj.user_id = user_id

\* weaviate_service.py lines 306-322: And(user_id Equal, Or(document_id Equal ...))
weaviate_where(obj, user_id, document_ids) ==
    /\ obj.user_id = user_id
    /\ Truthy(document_ids) => \E doc_id \in document_ids.ids : obj.document_id = doc_id

\* what a store may answer: `limit` of the matching records (the nearest
\* ones, which depend on the vectors), all of them when there are fewer
TopK(matching, limit) ==
    {H \in SUBSET matching :
        Cardinality(H) = IF Cardinality(matching) < limit
                         THEN Cardinality(matching) ELSE limit}

DocumentIdsArgs ==
    {NoIds} \cup {[given |-> TRUE, ids |-> S] : S \in SUBSET DocIds}

\* milvus_service.py search, as called by query_service with limit=3
search(user_id, document_ids, search_ok) ==
    /\ CanStart
    /\ nreq' = nreq + 1
    /\ LET r == [NewReq("search", user_id, 0) EXCEPT !.document_ids = document_ids]
       IN  IF search_ok
           THEN \E H \in TopK({v \in vectors : milvus_filter(v, user_id, document_ids)}, 3) :
                    req' = [r EXCEPT !.pc = "returned", !.hits = H]
           ELSE req' = Raise(NewReq("search", user_id, 0),
                             Exc("Exception", "Zilliz API error", "search"))
    /\ sdoc' = NoDoc
    /\ srows' = {}
    /\ UNCHANGED << documents, chunk_rows, vectors, weaviate_objects, seq >>
    /\ UNCHANGED nonIngVars

\* weaviate_service.py search, as called by streaming.py with limit=5; a
\* reply that carries GraphQL errors yields the empty list (lines 372-374)
weaviate_search(user_id, document_ids, outcome) ==
    /\ CanStart
    /\ nreq' = nreq + 1
    /\ LET r == [NewReq("weaviate_search", user_id, 0) EXCEPT !.document_ids = document_ids]
       IN  IF outcome = "ok"
           THEN \E H \in TopK({o \in weaviate_objects :
                                  weaviate_where(o, user_id, document_ids)}, 5) :
                    req' = [r EXCEPT !.pc = "returned", !.hits = H]
           ELSE IF outcome = "graphql_errors"
           THEN req' = [r EXCEPT !.pc = "returned", !.hits = {}]
           ELSE req' = Raise(NewReq("weaviate_search", user_id, 0),
                             Exc("HTTPStatusError", "Weaviate request failed", "search"))
    /\ sdoc' = NoDoc
    /\ srows' = {}
    /\ UNCHANGED << documents, chunk_rows, vectors, weaviate_objects, seq >>
    /\ UNCHANGED nonIngVars

(***************************************************************************)
(* app/core/database.py: get_db, the end of the request                    *)
(***************************************************************************)
\* what session.commit() writes
Committed(docs) ==
    IF req.doc = 0 \/ sdoc = NoDoc THEN docs
    ELSE [docs EXCEPT ![req.doc] = IF sdoc = DeletedDoc THEN NoDoc ELSE sdoc]

\* rows of a deleted document go with it (cascade)
CommittedRows(rows) ==
    IF sdoc = DeletedDoc THEN {r \in rows : r.document_id # req.doc}
    ELSE rows \cup srows

\* line 46 (and 48 when the commit raises)
get_db_commit(commit_ok) ==
    /\ req.pc = "returned"
    /\ documents' = IF commit_ok THEN Committed(documents) ELSE documents
    /\ chunk_rows' = IF commit_ok THEN CommittedRows(chunk_rows) ELSE chunk_rows
    /\ req' = IdleReq
    /\ sdoc' = NoDoc
    /\ srows' = {}
    /\ UNCHANGED << vectors, weaviate_objects, seq, nreq >>
    /\ UNCHANGED nonIngVars

\* lines 47-49: the handler raised
get_db_rollback ==
    /\ req.pc = "raised"
    /\ req' = IdleReq
    /\ sdoc' = NoDoc
    /\ srows' = {}
    /\ UNCHANGED << documents, chunk_rows, vectors, weaviate_objects, seq, nreq >>
    /\ UNCHANGED nonIngVars

\* a new request is taken up when none is in flight (CanStart)
Next ==
    \/ req.pc = "idle" /\ \E u \in Users, t \in TextIds, s \in BOOLEAN, f \in BOOLEAN :
           upload_document(u, t, s, f)
    \/ req.pc = "idle" /\ \E d \in DocIds, u \in Users, f \in BOOLEAN :
           reprocess_document(d, u, f)
    \/ \E f \in BOOLEAN : process_begin(f)
    \/ \E e \in BOOLEAN : process_extract(e)
    \/ \E f \in BOOLEAN : process_chunk(f)
    \/ \E e \in BOOLEAN : add_chunks_embed(e)
    \/ \E i \in BOOLEAN : add_chunks_insert(i, TRUE)
    \/ \E f \in BOOLEAN : process_finalize(f)
    \/ \E f \in BOOLEAN : process_except(f)
    \/ req.pc = "idle" /\ \E u \in Users, t \in TextIds, f \in BOOLEAN :
           upload_from_text(u, t, f)
    \/ req.pc = "idle" /\ \E u \in Users, t \in TextIds, f \in BOOLEAN :
           crawl_website(u, t, f)
    \/ req.pc = "idle" /\ \E u \in Users, t \in TextIds, f \in BOOLEAN :
           upload_from_youtube(u, t, f)
    \/ \E f \in BOOLEAN : direct_chunk(f)
    \/ \E f \in BOOLEAN : direct_finalize(f)
    \/ \E f \in BOOLEAN : direct_except(f)
    \/ req.pc = "idle" /\ \E d \in DocIds, u \in Users : delete_document(d, u)
    \/ \E o \in BOOLEAN : delete_vectors(o)
    \/ \E f \in BOOLEAN : delete_row(f)
    \/ req.pc = "idle" /\ \E u \in Users, ids \in DocumentIdsArgs, o \in BOOLEAN :
           search(u, ids, o)
    \/ req.pc = "idle" /\ \E u \in Users, ids \in DocumentIdsArgs,
           o \in {"ok", "graphql_errors", "http_error"} : weaviate_search(u, ids, o)
    \/ \E c \in BOOLEAN : get_db_commit(c)
    \/ get_db_rollback

vars == << documents, chunk_rows, vectors, weaviate_objects, seq, nreq, req, sdoc,
          srows, llm, qry, emb, mil, chk, chat, otp >>

Spec == Init /\ [][Next]_vars

\* the same program with a store whose insert reply may carry no insertIds
NextAnyReply ==
    \/ Next
    \/ \E i \in BOOLEAN : add_chunks_insert(i, FALSE)

SpecAnyReply == Init /\ [][NextAnyReply]_vars

InitLLM ==
    /\ documents = [d \in DocIds |-> NoDoc]
    /\ chunk_rows = {}
    /\ vectors = {}
    /\ weaviate_objects = {}
    /\ seq = [doc |-> 0, vec |-> 0]
    /\ nreq = 0
    /\ req = IdleReq
    /\ sdoc = NoDoc
    /\ srows = {}
    /\ \E env \in Environments : llm = IdleLLM(env)
    /\ qry = IdleQry
    /\ emb = IdleEmb
    /\ mil = IdleMil
    /\ OthersIdle

NextLLM ==
    \/ \E us \in UserSettings, chunks \in EvidenceLists : generate_response(us, chunks)
    \/ \E reply \in ProviderReplies : provider_reply(reply)
    \/ llm_return

SpecLLM == InitLLM /\ [][NextLLM]_vars

(***************************************************************************)
(* app/services/query_service.py: calculate_confidence                     *)
(*                                                                         *)
(* Distances, scores and weights are counted in tenths and a confidence in *)
(* thousandths; sums, quotients and round() are those of the rationals.    *)
(***************************************************************************)
\* longest result list handed to calculate_confidence
MaxResults == 6

\* cosine distances a store reports for a hit: 0.0, 0.5, 1.0, 1.5, 2.0
Distances == {0, 5, 10, 15, 20}

\* milvus_service.py line 305: "score": 1 - hit.get("distance", 0)
score_of(distance) == 10 - distance

\* line 37
weights == << 10, 8, 6, 4, 2 >>

\* round(num / den, 3) for den > 0, in thousandths: to the nearest, a tie to
\* the even neighbour
round3(num, den) ==
    LET q == (1000 * num) \div den
        r == (1000 * num) % den
    IN  IF 2 * r < den THEN q
        ELSE IF 2 * r > den THEN q + 1
        ELSE IF q % 2 = 0 THEN q ELSE q + 1

\* lines 41-46: the loop over enumerate(results), i counted from 0
RECURSIVE confidence_loop(_, _, _, _)
confidence_loop(results, i, weighted_sum, weight_total) ==
    IF i >= Len(results) \/ i >= Len(weights)
    THEN [weighted_sum |-> weighted_sum, weight_total |-> weight_total]
    ELSE confidence_loop(results, i + 1,
                         weighted_sum + results[i + 1].score * weights[i + 1],
                         weight_total + weights[i + 1])

\* round(min(1.0, weighted_sum / weight_total), 3); weighted_sum is counted
\* in hundredths, weight_total in tenths
confidence_of(acc) ==
    IF acc.weight_total = 0 THEN 0
    ELSE IF acc.weighted_sum >= 10 * acc.weight_total THEN 1000
    ELSE round3(acc.weighted_sum, 10 * acc.weight_total)

\* a denominator that sums all five weights whatever the number of results
calculate_confidence_all_weights(results) ==
    IF results = << >> THEN 0
    ELSE confidence_of([confidence_loop(results, 0, 0, 0) EXCEPT !.weight_total = 30])

\* lines 32-51
calculate_confidence(results) ==
    IF results = << >> THEN 0
    ELSE confidence_of(confidence_loop(results, 0, 0, 0))

\* the result lists of up to MaxResults hits
HitLists == UNION {[1..n -> Distances] : n \in 0..MaxResults}

\* calculate_confidence applied to the results formatted from a list of hits
score_results(hits) ==
    /\ qry.pc = "idle"
    /\ LET results == [i \in 1..Len(hits) |-> [score |-> score_of(hits[i])]]
       IN  qry' = [qry EXCEPT !.pc = "scored", !.results = results,
                              !.confidence = calculate_confidence(results)]
    /\ UNCHANGED nonQryVars

score_return ==
    /\ qry.pc = "scored"
    /\ qry' = IdleQry
    /\ UNCHANGED nonQryVars

\* nothing stored, no request in flight
EmptyIngestion ==
    /\ documents = [d \in DocIds |-> NoDoc]
    /\ chunk_rows = {}
    /\ vectors = {}
    /\ weaviate_objects = {}
    /\ seq = [doc |-> 0, vec |-> 0]
    /\ nreq = 0
    /\ req = IdleReq
    /\ sdoc = NoDoc
    /\ srows = {}

InitScore ==
    /\ EmptyIngestion
    /\ llm = IdleLLM([GROQ_API_KEY |-> "gsk-system", GEMINI_API_KEY |-> None])
    /\ qry = IdleQry
    /\ emb = IdleEmb
    /\ mil = IdleMil
    /\ OthersIdle

NextScore ==
    \/ qry.pc = "idle" /\ \E hits \in HitLists : score_results(hits)
    \/ score_return

SpecScore == InitScore /\ [][NextScore]_vars

(***************************************************************************)
(* The query paths: app/api/queries.py ask_question with                   *)
(* QueryService.process_query, app/api/chat.py send_message with           *)
(* QueryService.query_documents, app/api/streaming.py generate_stream      *)
(***************************************************************************)
\* bounds: hits in one answer of a store, queries served
MaxHits == 2
MaxQueries == 2

\* chunk contents: a short one, and one longer than the 300 characters of
\* streaming.py line 63
C_SHORT == Rep("x", 20)
C_LONG == Rep("y", 301)

\* a hit as a store reports it
Hit(document_id, chunk_index, content, distance) ==
    [document_id |-> document_id, chunk_index |-> chunk_index, content |-> content,
     distance |-> distance]
StoreHits == {Hit(1, 0, C_SHORT, 5), Hit(1, 1, C_LONG, 10), Hit(2, 0, C_SHORT, 0)}

\* the ranked answers of a store to a search with this limit
Answers(limit) ==
    {a \in UNION {[1..n -> StoreHits] : n \in 0..MinOf({limit, MaxHits})} :
        \A i, j \in 1..Len(a) : i # j => a[i] # a[j]}

\* how the retrieval of a query can end: the question embedded and the store
\* searched, the embedding request failed, the store unreachable or
\* reporting an error, a GraphQL reply that carries errors
RetrievalOutcomes == {"ok", "embed_error", "store_error", "graphql_errors"}

Result(hit, score) ==
    [document_id |-> hit.document_id, chunk_index |-> hit.chunk_index,
     content |-> hit.content, score |-> score, distance |-> hit.distance]

\* milvus_service.py search lines 265-314; a reply with an error code makes
\* _make_request raise
milvus_search(outcome, answer) ==
    IF outcome = "ok"
    THEN [raised |-> FALSE,
          results |-> [i \in 1..Len(answer) |->
                          Result(answer[i], score_of(answer[i].distance))]]
    ELSE [raised |-> TRUE, results |-> << >>]

\* weaviate_service.py search lines 294-398: `1 - distance if distance else 0.0`
weaviate_search_results(outcome, answer) ==
    IF outcome = "ok"
    THEN [raised |-> FALSE,
          results |-> [i \in 1..Len(answer) |->
                          Result(answer[i], IF answer[i].distance # 0
                                            THEN 10 - answer[i].distance ELSE 0)]]
    ELSE IF outcome = "graphql_errors"
    THEN [raised |-> FALSE, results |-> << >>]
    ELSE [raised |-> TRUE, results |-> << >>]

Source(result, content) ==
    [document_id |-> result.document_id, chunk_id |-> result.chunk_index,
     content |-> content, relevance_score |-> result.score]

\* query_service.py lines 17-29
build_sources(search_results) ==
    [i \in 1..Len(search_results) |->
        Source(search_results[i], search_results[i].content)]

\* streaming.py lines 58-68
stream_sources(search_results) ==
    [i \in 1..Len(search_results) |->
        Source(search_results[i],
               IF Len(search_results[i].content) > 300
               THEN SubSeq(search_results[i].content, 1, 300) \o << ".", ".", "." >>
               ELSE search_results[i].content)]

\* records of the database session
QueryRecord(sources, confidence_score) ==
    [table |-> "queries", role |-> "none", content |-> "answer", sources |-> sources,
     confidence_score |-> confidence_score]
ChatMessage(role, content, sources) ==
    [table |-> "chat_messages", role |-> role, content |-> content,
     sources |-> sources, confidence_score |-> 0]

QueryCanStart == qry.pc = "idle" /\ qry.served < MaxQueries

NewQuery(path, outcome) ==
    [IdleQry EXCEPT !.path = path, !.retrieval = outcome, !.stored = qry.stored,
                    !.served = qry.served + 1]

\* queries.py lines 31-41 with process_query lines 66-76: the search; any
\* exception of process_query becomes an HTTP 500
process_query_search(outcome, answer) ==
    /\ QueryCanStart
    /\ LET found == milvus_search(outcome, answer)
           q == NewQuery("ask", outcome)
       IN  qry' = IF found.raised
                  THEN [q EXCEPT !.pc = "raised", !.response = "500"]
                  ELSE [q EXCEPT !.pc = "generate", !.results = found.results]
    /\ UNCHANGED nonQryVars

\* process_query lines 78-119: generate_response, build_sources,
\* calculate_confidence, the Query record and its flush
process_query_answer(flush_ok) ==
    /\ qry.path = "ask"
    /\ qry.pc = "generate"
    /\ LET sources == build_sources(qry.results)
           confidence_score == calculate_confidence(qry.results)
           q == [qry EXCEPT !.generated = TRUE,
                            !.pending = Append(@, QueryRecord(sources, confidence_score))]
       IN  qry' = IF flush_ok
                  THEN [q EXCEPT !.pc = "returned", !.response = "answer",
                                 !.sources = sources, !.confidence = confidence_score]
                  ELSE [q EXCEPT !.pc = "raised", !.response = "500"]
    /\ UNCHANGED nonQryVars

\* chat.py lines 143-180 and 207-214 with query_documents lines 195-202:
\* the user message, the search, and the handler of its exception
send_message_search(flush_ok, outcome, answer) ==
    /\ QueryCanStart
    /\ LET found == milvus_search(outcome, answer)
           q == [NewQuery("chat", outcome) EXCEPT
                    !.pending = << ChatMessage("user", "question", << >>) >>]
       IN  qry' = IF ~flush_ok
                  THEN [q EXCEPT !.pc = "raised", !.response = "500"]
                  ELSE IF found.raised
                  THEN [q EXCEPT !.pc = "returned", !.response = "error_message",
                                 !.pending = Append(@, ChatMessage("assistant",
                                                                   "error", << >>))]
                  ELSE [q EXCEPT !.pc = "generate", !.results = found.results]
    /\ UNCHANGED nonQryVars

\* query_documents lines 204-219 and chat.py lines 182-223; after a flush
\* that failed the add_message of the exception handler raises as well
send_message_answer(flush_ok) ==
    /\ qry.path = "chat"
    /\ qry.pc = "generate"
    /\ LET sources == build_sources(qry.results)
           q == [qry EXCEPT !.generated = TRUE,
                            !.pending = Append(@, ChatMessage("assistant", "answer",
                                                              sources))]
       IN  qry' = IF flush_ok
                  THEN [q EXCEPT !.pc = "returned", !.response = "answer",
                                 !.sources = sources]
                  ELSE [q EXCEPT !.pc = "raised", !.response = "500"]
    /\ UNCHANGED nonQryVars

\* streaming.py lines 31-53: the user message and the search, which is
\* outside the try block
generate_stream_search(flush_ok, outcome, answer) ==
    /\ QueryCanStart
    /\ LET found == weaviate_search_results(outcome, answer)
           q == [NewQuery("stream", outcome) EXCEPT
                    !.pending = << ChatMessage("user", "question", << >>) >>]
       IN  qry' = IF ~flush_ok \/ found.raised
                  THEN [q EXCEPT !.pc = "raised", !.response = "stream_error"]
                  ELSE [q EXCEPT !.pc = "generate", !.results = found.results]
    /\ UNCHANGED nonQryVars

\* streaming.py lines 57-125
generate_stream_answer(flush_ok) ==
    /\ qry.path = "stream"
    /\ qry.pc = "generate"
    /\ LET sources == stream_sources(qry.results)
           q == [qry EXCEPT !.generated = TRUE,
                            !.pending = Append(@, ChatMessage("assistant", "answer",
                                                              sources))]
       IN  qry' = IF flush_ok
                  THEN [q EXCEPT !.pc = "returned", !.response = "answer",
                                 !.sources = sources]
                  ELSE [q EXCEPT !.pc = "raised", !.response = "stream_error"]
    /\ UNCHANGED nonQryVars

QueryEnded(stored) == [IdleQry EXCEPT !.stored = stored, !.served = qry.served]

\* database.py get_db line 46 (48 when the commit raises)
query_commit(commit_ok) ==
    /\ qry.path \in {"ask", "chat"}
    /\ qry.pc = "returned"
    /\ qry' = QueryEnded(IF commit_ok THEN qry.stored \o qry.pending ELSE qry.stored)
    /\ UNCHANGED nonQryVars

\* get_db lines 47-49
query_rollback ==
    /\ qry.path \in {"ask", "chat"}
    /\ qry.pc = "raised"
    /\ qry' = QueryEnded(qry.stored)
    /\ UNCHANGED nonQryVars

\* the generator runs while the response is sent: whether the session of
\* get_db is committed after it depends on the framework version
stream_end(persisted) ==
    /\ qry.path = "stream"
    /\ qry.pc \in {"returned", "raised"}
    /\ qry' = QueryEnded(IF persisted THEN qry.stored \o qry.pending ELSE qry.stored)
    /\ UNCHANGED nonQryVars

MilvusOutcomes == RetrievalOutcomes \ {"graphql_errors"}

NextQuery ==
    \/ qry.pc = "idle" /\ \E o \in MilvusOutcomes, a \in Answers(3) :
           process_query_search(o, a)
    \/ \E f \in BOOLEAN : process_query_answer(f)
    \/ qry.pc = "idle" /\ \E f \in BOOLEAN, o \in MilvusOutcomes, a \in Answers(3) :
           send_message_search(f, o, a)
    \/ \E f \in BOOLEAN : send_message_answer(f)
    \/ qry.pc = "idle" /\ \E f \in BOOLEAN, o \in RetrievalOutcomes, a \in Answers(5) :
           generate_stream_search(f, o, a)
    \/ \E f \in BOOLEAN : generate_stream_answer(f)
    \/ \E c \in BOOLEAN : query_commit(c)
    \/ query_rollback
    \/ \E p \in BOOLEAN : stream_end(p)

SpecQuery == InitScore /\ [][NextQuery]_vars

(***************************************************************************)
(* app/services/embedding_service.py: get_embeddings                       *)
(*                                                                         *)
(* The call is given len(texts) texts; the provider's reply is an HTTP     *)
(* status and, for 200, the list data of items with an index and an        *)
(* embedding.                                                              *)
(***************************************************************************)
MaxTexts == 2

Embeddings == {"va", "vb", "vc"}

Items == [index : 0..MaxTexts, embedding : Embeddings]

Replies == UNION {[1..n -> Items] : n \in 0..MaxTexts}

\* sorted(data["data"], key=lambda x: x["index"]): a stable sort
RECURSIVE insert_sorted(_, _)
insert_sorted(sorted, item) ==
    IF sorted = << >> THEN << item >>
    ELSE IF sorted[Len(sorted)].index <= item.index THEN Append(sorted, item)
    ELSE Append(insert_sorted(SubSeq(sorted, 1, Len(sorted) - 1), item),
                sorted[Len(sorted)])

RECURSIVE sorted_by_index(_)
sorted_by_index(data) ==
    IF data = << >> THEN << >>
    ELSE insert_sorted(sorted_by_index(SubSeq(data, 1, Len(data) - 1)),
                       data[Len(data)])

\* lines 53-69: raise_for_status, then the embeddings of the sorted items
get_embeddings(texts, status, data) ==
    /\ emb.pc = "idle"
    /\ emb' = IF status # 200
              THEN [IdleEmb EXCEPT !.pc = "raised", !.texts = texts]
              ELSE [pc |-> "returned", texts |-> texts, data |-> data,
                    result |-> [i \in 1..Len(data) |->
                                   sorted_by_index(data)[i].embedding]]
    /\ UNCHANGED nonEmbVars

\* the caller has the list, or the exception
get_embeddings_done ==
    /\ emb.pc \in {"returned", "raised"}
    /\ emb' = IdleEmb
    /\ UNCHANGED nonEmbVars

NextEmb ==
    \/ emb.pc = "idle" /\ \E texts \in 1..MaxTexts, status \in {200, 500},
                             data \in Replies : get_embeddings(texts, status, data)
    \/ get_embeddings_done

SpecEmb == InitScore /\ [][NextEmb]_vars

(***************************************************************************)
(* app/services/milvus_service.py: connect, _ensure_collection,            *)
(* health_check                                                            *)
(*                                                                         *)
(* Each adapter sends its requests one at a time; the requests of          *)
(* different adapters interleave at the store.                             *)
(***************************************************************************)
Ok(has) == [status |-> 200, code |-> 0, message |-> "", has |-> has]
AlreadyExists ==
    [status |-> 200, code |-> 65535, message |-> "collection already exists",
     has |-> FALSE]
RateLimited ==
    [status |-> 200, code |-> 1807, message |-> "rate limit exceeded", has |-> FALSE]
Unavailable ==
    [status |-> 503, code |-> 503, message |-> "service unavailable", has |-> FALSE]

\* "already exist" in error_msg.lower()
mentions_already_exist(message) == message = "collection already exists"

Exists(collections) == \E c \in collections : c.name = COLLECTION_NAME

\* what the store may answer to /collections/has
HasReplies(collections) == {Ok(Exists(collections)), RateLimited, Unavailable}

\* what the store may answer to /collections/create: a create of the
\* existing collection with the same schema is accepted or refused
CreateReplies(collections) ==
    {Ok(FALSE), RateLimited, Unavailable}
        \cup (IF Exists(collections) THEN {AlreadyExists} ELSE {})

\* a request that raises on every API-level error
make_request_raises_strict(reply) ==
    \/ reply.status # 200
    \/ reply.code # 0

\* _make_request lines 88-98
make_request_raises(reply) ==
    \/ reply.status # 200
    \/ reply.code # 0 /\ ~mentions_already_exist(reply.message)

SetAdapter(p, a) == mil' = [mil EXCEPT !.adapter[p] = a]

\* the exception of a request: connect re-raises it (lines 51-53),
\* health_check returns False (lines 350-352)
Failed(a, reply) ==
    IF a.op = "health_check"
    THEN [a EXCEPT !.pc = "returned", !.result = FALSE, !.reply = reply]
    ELSE [a EXCEPT !.pc = "raised", !.exc = reply.message, !.reply = reply]

\* connect lines 24-49, up to the first request of _ensure_collection
connect(p) ==
    /\ mil.adapter[p].pc = "idle"
    /\ SetAdapter(p, IF mil.adapter[p].connected
                     THEN [mil.adapter[p] EXCEPT !.op = "connect", !.pc = "returned"]
                     ELSE [mil.adapter[p] EXCEPT !.op = "connect", !.pc = "has",
                                                 !.connected = TRUE])
    /\ UNCHANGED nonMilVars

\* _ensure_collection lines 104-114: the existence check
ensure_collection_has(p, reply) ==
    /\ mil.adapter[p].pc = "has"
    /\ reply \in HasReplies(mil.collections)
    /\ LET a == mil.adapter[p]
       IN  SetAdapter(p,
               IF make_request_raises(reply) THEN Failed(a, reply)
               ELSE IF reply.has
               THEN [a EXCEPT !.saw = "has", !.reply = reply,
                              !.pc = IF a.op = "health_check" THEN "health_has"
                                     ELSE "returned"]
               ELSE [a EXCEPT !.saw = "missing", !.reply = reply, !.pc = "create"])
    /\ UNCHANGED nonMilVars

\* _ensure_collection lines 116-182: the create request
ensure_collection_create(p, reply) ==
    /\ mil.adapter[p].pc = "create"
    /\ reply \in CreateReplies(mil.collections)
    /\ LET a == [mil.adapter[p] EXCEPT !.create_sent = TRUE]
           collections == IF reply = Ok(FALSE)
                          THEN mil.collections \cup {FixedCollection}
                          ELSE mil.collections
       IN  mil' = [mil EXCEPT
                     !.collections = collections,
                     !.adapter[p] =
                         IF make_request_raises(reply) THEN Failed(a, reply)
                         ELSE [a EXCEPT !.reply = reply,
                                        !.pc = IF a.op = "health_check"
                                               THEN "health_has" ELSE "returned"]]
    /\ UNCHANGED nonMilVars

\* health_check lines 339-341
health_check(p) ==
    /\ mil.adapter[p].pc = "idle"
    /\ SetAdapter(p, IF mil.adapter[p].connected
                     THEN [mil.adapter[p] EXCEPT !.op = "health_check",
                                                 !.pc = "health_has"]
                     ELSE [mil.adapter[p] EXCEPT !.op = "health_check", !.pc = "has",
                                                 !.connected = TRUE])
    /\ UNCHANGED nonMilVars

\* health_check lines 343-352
health_check_has(p, reply) ==
    /\ mil.adapter[p].pc = "health_has"
    /\ reply \in HasReplies(mil.collections)
    /\ LET a == mil.adapter[p]
       IN  SetAdapter(p, IF make_request_raises(reply) THEN Failed(a, reply)
                         ELSE [a EXCEPT !.pc = "returned", !.result = reply.has,
                                        !.reply = reply])
    /\ UNCHANGED nonMilVars

\* the caller has the result, or the exception
adapter_done(p) ==
    /\ mil.adapter[p].pc \in {"returned", "raised"}
    /\ SetAdapter(p, IdleAdapter(mil.adapter[p].connected))
    /\ UNCHANGED nonMilVars

\* disconnect lines 55-58
disconnect(p) ==
    /\ mil.adapter[p].pc = "idle"
    /\ mil.adapter[p].connected
    /\ SetAdapter(p, IdleAdapter(FALSE))
    /\ UNCHANGED nonMilVars

StoreReplies == {Ok(TRUE), Ok(FALSE), AlreadyExists, RateLimited, Unavailable}

InitMilvus ==
    /\ EmptyIngestion
    /\ llm = IdleLLM([GROQ_API_KEY |-> "gsk-system", GEMINI_API_KEY |-> None])
    /\ qry = IdleQry
    /\ emb = IdleEmb
    /\ mil \in {MilState({}), MilState({FixedCollection})}
    /\ OthersIdle

NextMilvus ==
    \/ \E p \in Adapters : connect(p)
    \/ \E p \in Adapters, reply \in StoreReplies : ensure_collection_has(p, reply)
    \/ \E p \in Adapters, reply \in StoreReplies : ensure_collection_create(p, reply)
    \/ \E p \in Adapters : health_check(p)
    \/ \E p \in Adapters, reply \in StoreReplies : health_check_has(p, reply)
    \/ \E p \in Adapters : adapter_done(p)
    \/ \E p \in Adapters : disconnect(p)

SpecMilvus == InitMilvus /\ [][NextMilvus]_vars

(***************************************************************************)
(* app/utils/text_chunker.py: chunk_text on input texts                    *)
(*                                                                         *)
(* An input is up to MaxWords words, word k made of the k-th letter, of    *)
(* lengths below MIN_CHUNK_SIZE, below and above DEFAULT_CHUNK_SIZE,       *)
(* joined by a space, a sentence end or a paragraph break.                 *)
(***************************************************************************)
MaxWords == 2

WordLens == {4, 40, MIN_CHUNK_SIZE - 1, MIN_CHUNK_SIZE, 501, DEFAULT_CHUNK_SIZE + 1}
Separators == {<< " " >>, << ".", " " >>, << "\n", "\n" >>}
Letters == << "a", "b", "c", "d", "e" >>

RECURSIVE InputsOf(_)
InputsOf(n) ==
    IF n = 1 THEN {Rep(Letters[1], l) : l \in WordLens}
    ELSE {t \o sep \o Rep(Letters[n], l) :
             t \in InputsOf(n - 1), sep \in Separators, l \in WordLens}

ChunkInputs == UNION {InputsOf(n) : n \in 1..MaxWords}

\* process_document line 148: chunks = chunk_text(text)
chunk_text_call(text) ==
    /\ chk.pc = "idle"
    /\ chk' = [pc |-> "returned", text |-> text, chunks |-> chunk_text(text)]
    /\ UNCHANGED nonChkVars

\* the caller has the list
chunk_text_done ==
    /\ chk.pc = "returned"
    /\ chk' = IdleChk
    /\ UNCHANGED nonChkVars

NextChunk ==
    \/ chk.pc = "idle" /\ \E text \in ChunkInputs : chunk_text_call(text)
    \/ chunk_text_done

SpecChunk == InitScore /\ [][NextChunk]_vars

(***************************************************************************)
(* app/api/chat.py send_message with app/services/chat_service.py          *)
(*                                                                         *)
(* chat.messages and chat.message_count are the committed rows of one      *)
(* session; chat.added are the messages of the request's transaction.      *)
(* created_at is the server's now(), the start time of the transaction:    *)
(* the messages one request adds carry the same value.                     *)
(***************************************************************************)
MaxSends == 6

max_messages == 10

Message(id, role, content, created_at) ==
    [id |-> id, role |-> role, content |-> content, created_at |-> created_at]

\* rows of one created_at value, in id order
CreatedAt(msgs, t) == SelectSeq(msgs, LAMBDA m : m.created_at = t)

Reverse(q) == [i \in 1..Len(q) |-> q[Len(q) + 1 - i]]

\* ORDER BY created_at: rows of equal created_at come in either order
RECURSIVE order_by_created_at(_, _, _)
order_by_created_at(msgs, t, reversed) ==
    IF t = 0 THEN << >>
    ELSE order_by_created_at(msgs, t - 1, reversed)
             \o (IF t \in reversed THEN Reverse(CreatedAt(msgs, t))
                 ELSE CreatedAt(msgs, t))

\* chat_service.py lines 179-200 (limit is never 0 here)
get_session_messages(msgs, reversed, limit) ==
    LET rows == order_by_created_at(msgs, MaxSends, reversed)
    IN  IF Len(rows) <= limit THEN rows ELSE SubSeq(rows, 1, limit)

\* chat.py line 179: context[:-1] if len(context) > 1 else None
history_of(context) ==
    IF Len(context) > 1 THEN SubSeq(context, 1, Len(context) - 1) ELSE << >>

\* add_message without its UPDATE of message_count
add_message_uncounted(c, role, content) ==
    [c EXCEPT !.added = Append(@, Message(Len(c.messages) + Len(c.added) + 1, role,
                                          content, c.sends))]

\* chat_service.py lines 141-177: the message row and the UPDATE
\* message_count = message_count + 1, both in the request's transaction
add_message(c, role, content) ==
    [c EXCEPT !.added = Append(@, Message(Len(c.messages) + Len(c.added) + 1, role,
                                          content, c.sends)),
              !.updates = @ + 1]

\* chat.py lines 143-165: the user message, then get_session_context
send_message_begin(reversed) ==
    /\ chat.pc = "idle"
    /\ chat.sends < MaxSends
    /\ LET c == add_message([chat EXCEPT !.sends = @ + 1], "user", "question")
           context == get_session_messages(c.messages \o c.added, reversed,
                                           max_messages)
       IN  chat' = [c EXCEPT !.pc = "query",
                             !.context = context,
                             !.chat_history = history_of(context)]
    /\ UNCHANGED nonChatVars

\* chat.py lines 172-223: query_documents and the assistant message, or the
\* error message of the except branch
send_message_reply(query_ok) ==
    /\ chat.pc = "query"
    /\ chat' = [add_message(chat, "assistant", IF query_ok THEN "answer" ELSE "error")
                   EXCEPT !.pc = "returned",
                          !.outcome = IF query_ok THEN "answered" ELSE "raised"]
    /\ UNCHANGED nonChatVars

\* get_db: the commit stores the messages and the message_count updates of
\* the request; a failed commit stores none of them
chat_commit(commit_ok) ==
    /\ chat.pc = "returned"
    /\ chat' = [IdleChat EXCEPT
                   !.sends = chat.sends,
                   !.messages = IF commit_ok THEN chat.messages \o chat.added
                                ELSE chat.messages,
                   !.message_count = IF commit_ok
                                     THEN chat.message_count + chat.updates
                                     ELSE chat.message_count]
    /\ UNCHANGED nonChatVars

NextChat ==
    \/ chat.pc = "idle" /\ \E reversed \in SUBSET (1..chat.sends) :
           send_message_begin(reversed)
    \/ \E q \in BOOLEAN : send_message_reply(q)
    \/ \E c \in BOOLEAN : chat_commit(c)

SpecChat == InitScore /\ [][NextChat]_vars

(***************************************************************************)
(* app/services/email_service.py: store_otp and verify_otp over the        *)
(* module's _otp_store; the clock counts minutes                           *)
(***************************************************************************)
expires_minutes == 10

Codes == {"111111", "222222"}

\* email_service.py lines 34-40; the issue number tells one stored OTP from
\* the next one stored under the same address
store_otp(email, code) ==
    /\ otp.pc = "idle"
    /\ Len(otp.compared) < MaxIssues
    /\ otp' = [otp EXCEPT
                  !.store[email] = [otp |-> code,
                                    expires_at |-> otp.now + expires_minutes,
                                    attempts |-> 0,
                                    issue |-> Len(otp.compared) + 1],
                  !.compared = Append(@, 0),
                  !.accepted = Append(@, 0)]
    /\ UNCHANGED nonOtpVars

\* `if stored["attempts"] > 5:`
too_many_attempts_over(stored) == stored.attempts > 5

\* email_service.py line 55
too_many_attempts(stored) == stored.attempts >= 5

expired(stored, now) == now > stored.expires_at

Verdict(email, code, stored, ok, message) ==
    [email |-> email, otp |-> code, stored |-> stored, ok |-> ok, message |-> message]

\* email_service.py lines 42-67
verify_otp(email, code) ==
    /\ otp.pc = "idle"
    /\ LET stored == otp.store[email]
           i == stored.issue
       IN  IF stored = NoOtp
           THEN otp' = [otp EXCEPT !.pc = "returned",
                           !.verdict = Verdict(email, code, stored, FALSE, "No OTP found")]
           ELSE IF expired(stored, otp.now)
           THEN otp' = [otp EXCEPT !.pc = "returned", !.store[email] = NoOtp,
                           !.verdict = Verdict(email, code, stored, FALSE, "OTP has expired")]
           ELSE IF too_many_attempts(stored)
           THEN otp' = [otp EXCEPT !.pc = "returned", !.store[email] = NoOtp,
                           !.verdict = Verdict(email, code, stored, FALSE, "Too many attempts")]
           ELSE IF stored.otp = code
           THEN otp' = [otp EXCEPT !.pc = "returned", !.store[email] = NoOtp,
                           !.compared[i] = @ + 1, !.accepted[i] = @ + 1,
                           !.verdict = Verdict(email, code, stored, TRUE, "OTP verified")]
           ELSE otp' = [otp EXCEPT !.pc = "returned",
                           !.store[email].attempts = @ + 1,
                           !.compared[i] = @ + 1,
                           !.verdict = Verdict(email, code, stored, FALSE, "Invalid OTP")]
    /\ UNCHANGED nonOtpVars

\* the caller has the verdict
verify_otp_return ==
    /\ otp.pc = "returned"
    /\ otp' = [otp EXCEPT !.pc = "idle", !.verdict = NoVerdict]
    /\ UNCHANGED nonOtpVars

\* the clock is read a few minutes later, or a validity period later
ClockSteps == {4, expires_minutes}

\* datetime.now(timezone.utc) moves on
minutes_pass(minutes) ==
    /\ otp.pc = "idle"
    /\ otp.now + minutes <= MaxTime
    /\ otp' = [otp EXCEPT !.now = @ + minutes]
    /\ UNCHANGED nonOtpVars

NextOtp ==
    \/ \E email \in Emails, code \in Codes : store_otp(email, code)
    \/ \E email \in Emails, code \in Codes : verify_otp(email, code)
    \/ verify_otp_return
    \/ \E minutes \in ClockSteps : minutes_pass(minutes)

SpecOtp == InitScore /\ [][NextOtp]_vars

(***************************************************************************)
(* Properties                                                              *)
(***************************************************************************)
IsDoc(d) == d \notin {NoDoc, DeletedDoc}

\* the request is inside its ingestion pipeline, or has returned from it
Ingesting ==
    /\ req.kind \in IngestKinds
    /\ req.pc \in {"begin", "extract", "chunk", "embed", "insert", "finalize",
                   "except", "returned"}

VectorsOf(document_id) == {v \in vectors : v.document_id = document_id}
RowsOf(document_id) == {r \in chunk_rows : r.document_id = document_id}

\* C1: a search issued for a user returns only records stored with that
\* user's id, with or without document_ids, in either store; and every
\* vector record carries the user_id of the owner of its document.
C1_TenantIsolation ==
    /\ (req.kind \in {"search", "weaviate_search"} /\ req.pc = "returned")
           => \A h \in req.hits : h.user_id = req.user
    /\ \A v \in vectors :
           /\ IsDoc(documents[v.document_id])
                  => v.user_id = documents[v.document_id].user_id
           /\ (Ingesting /\ IsDoc(sdoc) /\ v.document_id = req.doc)
                  => v.user_id = sdoc.user_id

\* a search of one tenant has returned records while the store holds
\* records of the other tenant
C1_Witness ==
    /\ req.kind = "search"
    /\ req.pc = "returned"
    /\ req.hits # {}
    /\ \E v \in vectors : v.user_id # req.user

\* a step that writes this status to the Document object of the session
StatusEnters(status) ==
    /\ IsDoc(sdoc)
    /\ IsDoc(sdoc')
    /\ sdoc.status # status
    /\ sdoc'.status = status

\* a step in which a handler creates a new Document
Creates == req.pc = "idle" /\ IsDoc(sdoc') /\ seq'.doc # seq.doc

\* a step in which reprocess_document is called on an existing document of
\* the caller
ReprocessCalled ==
    /\ req.pc = "idle"
    /\ req'.kind = "reprocess"
    /\ IsDoc(documents[req'.doc])
    /\ documents[req'.doc].user_id = req'.user

ReprocessRejected ==
    /\ req'.pc = "raised"
    /\ req'.raised = HTTPException("400",
                        "Only failed or pending documents can be reprocessed")
    /\ sdoc' = documents[req'.doc]
    /\ UNCHANGED << documents, chunk_rows, vectors >>

C3_FailedAndSameException ==
    /\ (req.kind \in FileKinds /\ req.pc = "raised" /\ req.exc # NoExc)
           => /\ sdoc.status = FAILED
              /\ sdoc.error_message = str(req.exc)
              /\ req.raised = req.exc
    /\ (req.kind \in FileKinds /\ req.pc \in {"returned", "raised"} /\ IsDoc(sdoc))
           => sdoc.status # PROCESSING

\* C4: when an upload or reprocess request whose ingestion failed has ended,
\* get_db's commit or rollback included, the stored document exists with
\* status FAILED and the error message.
C4_FailureStored ==
    [][(/\ req.kind \in FileKinds
        /\ req.pc = "raised"
        /\ req.exc # NoExc
        /\ req'.pc = "idle")
           => /\ IsDoc(documents'[req.doc])
              /\ documents'[req.doc].status = FAILED
              /\ documents'[req.doc].error_message = str(req.exc)]_vars

\* C5: within an ingestion, vector insertion is acknowledged only after the
\* embedding, the embedding is made only after the Chunk rows are persisted,
\* and the status is COMPLETED only after the acknowledgement; a stored
\* COMPLETED document has its chunk_count Chunk rows stored.
C5_StepOrder ==
    /\ req.acked => req.embedded
    /\ req.embedded => req.persisted
    /\ (Ingesting /\ IsDoc(sdoc) /\ sdoc.status = COMPLETED) => req.acked
    /\ (Ingesting /\ req.pc = "returned") => sdoc.status = COMPLETED
    /\ \A d \in DocIds :
           (IsDoc(documents[d]) /\ documents[d].status = COMPLETED)
               => Cardinality(RowsOf(d)) = documents[d].chunk_count

\* an ingestion with chunks has gone through all its steps
C5_Witness ==
    /\ Ingesting
    /\ req.pc = "returned"
    /\ sdoc.status = COMPLETED
    /\ Len(req.chunks) > 0
    /\ req.acked

\* C6: no document, on any ingestion path, is COMPLETED with chunk_count 0:
\* empty text and an empty chunk list end in FAILED.
C6_NoEmptySuccess ==
    /\ (Ingesting /\ req.pc = "returned" /\ sdoc.status = COMPLETED)
           => sdoc.chunk_count > 0
    /\ \A d \in DocIds :
           (IsDoc(documents[d]) /\ documents[d].status = COMPLETED)
               => documents[d].chunk_count > 0

\* C7: no (document_id, chunk_index) pair occurs twice among the vector
\* records or among the Chunk rows, and when an ingestion has returned the
\* store holds exactly chunk_count records of the document.
C7_NoDuplicateVectors ==
    /\ \A v, w \in vectors :
           (v.document_id = w.document_id /\ v.chunk_index = w.chunk_index) => v = w
    /\ \A r, q \in chunk_rows \cup srows :
           (r.document_id = q.document_id /\ r.chunk_index = q.chunk_index) => r = q
    /\ (Ingesting /\ req.pc = "returned")
           => Cardinality(VectorsOf(req.doc)) = sdoc.chunk_count

\* C8: when delete_document has completed without error and its request has
\* been committed, no vector record and no Chunk row of the document is left.
C8_DeleteLeavesNothing ==
    [][(/\ req.kind = "delete"
        /\ req.pc = "returned"
        /\ req'.pc = "idle"
        /\ documents'[req.doc] = NoDoc)
           => /\ \A v \in vectors' : v.document_id # req.doc
              /\ \A r \in chunk_rows' : r.document_id # req.doc]_vars

\* the provider call did not produce an answer: no reply, an error status, a
\* body that is not JSON, or a body without the answer text
CallFailed(reply) ==
    \/ reply.kind # "response"
    \/ reply.status # "200"
    \/ ~reply.json
    \/ ~reply.has_items
    \/ reply.text \in {Absent, None}

\* C9: generate_response returns a str; when no credential is left or the
\* provider call failed, the str is the fallback answer built from the
\* evidence.
C9_AlwaysFallback ==
    llm.pc = "returned"
        => /\ llm.result.type = "str"
           /\ (~llm.called \/ CallFailed(llm.reply))
                  => llm.result = Str(_fallback_response(llm.chunks))

\* the settings select openai, anthropic or gemini and no key is available
\* for it
NonDefaultWithoutKey ==
    /\ HasSettings(llm.user_settings)
    /\ llm.user_settings.llm_provider \in {"openai", "anthropic", "gemini"}
    /\ Falsy(selected(llm.user_settings, llm.env).api_key)

\* C10: when the settings select a non-default provider without a key, the
\* request goes to groq with the default model and the system key; the
\* fallback answer is returned without a provider call exactly when the
\* system key is missing too.
C10_DefaultProviderFallback ==
    (llm.pc # "idle" /\ NonDefaultWithoutKey)
        => IF Falsy(llm.env.GROQ_API_KEY)
           THEN /\ llm.pc = "returned"
                /\ ~llm.called
                /\ llm.result = Str(_fallback_response(llm.chunks))
           ELSE /\ llm.provider = "groq"
                /\ llm.model = "llama-3.3-70b-versatile"
                /\ llm.api_key = llm.env.GROQ_API_KEY
                /\ llm.pc = "returned" => llm.called

\* a request for gpt-4o on a provider without a key is waiting for groq
C10_Witness ==
    /\ llm.pc = "awaiting"
    /\ NonDefaultWithoutKey
    /\ llm.user_settings.llm_model = "gpt-4o"
    /\ llm.provider = "groq"

\* the settings name a provider that _generate_async does not know
UnknownProviderNamed ==
    /\ HasSettings(llm.user_settings)
    /\ llm.user_settings.llm_provider \notin KnownProviders \cup {Absent}

\* C11: when the settings name a provider outside groq, openai, anthropic
\* and gemini, the request goes to the default provider, and the text
\* returned is the answer that provider generated or the fallback answer.
C11_UnknownProviderFallsBack ==
    UnknownProviderNamed
        => /\ llm.pc = "awaiting" => llm.provider = "groq"
           /\ llm.pc = "returned"
                  => \/ llm.result = Str(_fallback_response(llm.chunks))
                     \/ /\ llm.called
                        /\ llm.provider = "groq"
                        /\ ~CallFailed(llm.reply)
                        /\ llm.result = value_of(llm.reply.text)

\* s occurs in t
Contains(t, s) ==
    \/ s = << >>
    \/ \E i \in 1..(Len(t) - Len(s) + 1) :
           /\ t[i] = s[1]
           /\ t[i + Len(s) - 1] = s[Len(s)]
           /\ OccursAt(s, t, i)

\* the fallback answer has been returned for a non-empty evidence list
FallbackReturned ==
    /\ llm.pc = "returned"
    /\ llm.chunks # << >>
    /\ llm.result = Str(_fallback_response(llm.chunks))

\* C12: the fallback answer lists the top evidence items in rank order, each
\* with its document_name and its whole content, and ends with the note that
\* AI generation is not available.
C12_FallbackVerbatim ==
    FallbackReturned
        => LET text == llm.result.text
               top == 1..MinOf({3, Len(llm.chunks)})
           IN  /\ \A i \in top :
                      /\ llm.chunks[i].document_name # Absent
                             => Contains(text, << llm.chunks[i].document_name >>)
                      /\ Contains(text, llm.chunks[i].content)
               /\ \A i, j \in top :
                      i < j => /\ find(text, ToStr(i)) >= 0
                               /\ find(text, ToStr(i)) < find(text, ToStr(j))
               /\ text[Len(text)] = "\n*Note: AI-powered response generation is not available. Please configure an LLM provider for more intelligent answers.*"

\* C13: the confidence of a result list whose scores are 1 - distance for
\* distances from 0 to 2 lies between 0.0 and 1.0, and the confidence of
\* the empty list is 0.0.
C13_ConfidenceBounds ==
    qry.pc = "scored"
        => /\ qry.confidence >= 0
           /\ qry.confidence <= 1000
           /\ qry.results = << >> => qry.confidence = 0

\* the ranks that count: 1 .. min(n, 5)
RanksPresent(results) == 1..MinOf({Len(results), 5})

RECURSIVE SumOver(_, _)
SumOver(f, S) ==
    IF S = {} THEN 0
    ELSE LET i == CHOOSE i \in S : TRUE IN f[i] + SumOver(f, S \ {i})

\* sum(score_i * w_i) and sum(w_i) over the ranks present
ScoreSum(results) ==
    SumOver([i \in RanksPresent(results) |-> results[i].score * weights[i]],
            RanksPresent(results))
WeightSum(results) ==
    SumOver([i \in RanksPresent(results) |-> weights[i]], RanksPresent(results))

FullSources(results) ==
    [i \in 1..Len(results) |->
        [document_id |-> results[i].document_id, chunk_id |-> results[i].chunk_index,
         content |-> results[i].content, relevance_score |-> results[i].score]]

\* C15: on the ask, chat message and streaming paths the sources returned
\* with an answer, and those of the record stored for it, have one entry per
\* retrieved result in rank order, with chunk_id the chunk_index,
\* relevance_score the score and content the complete chunk content.
C15_FullSources ==
    (qry.pc = "returned" /\ qry.response = "answer")
        => /\ qry.sources = FullSources(qry.results)
           /\ qry.pending[Len(qry.pending)].sources = FullSources(qry.results)

\* C17: when embedding the question or searching the store failed, the
\* query ends with an error, the answer generator has not been invoked, no
\* Query record or assistant message is written, and no result list is
\* returned in place of the error.
C17_RetrievalFailureAborts ==
    (qry.pc \in {"generate", "returned", "raised"} /\ qry.retrieval # "ok")
        => /\ qry.pc = "raised"
           /\ ~qry.generated
           /\ \A i \in 1..Len(qry.pending) :
                  /\ qry.pending[i].table # "queries"
                  /\ qry.pending[i].role # "assistant"

\* C16: a search called with a non-empty document_ids returns only records
\* whose document_id is in document_ids and whose user_id is the caller's;
\* a record of the caller for a document outside the set is not returned.
C16_DocumentIdsFilter ==
    (/\ req.kind \in {"search", "weaviate_search"}
     /\ req.pc = "returned"
     /\ Truthy(req.document_ids))
        => \A h \in req.hits :
               /\ h.document_id \in req.document_ids.ids
               /\ h.user_id = req.user

\* a search restricted to some documents has returned records while the
\* store holds a record of the caller for a document outside the set
C16_Witness ==
    /\ req.kind = "weaviate_search"
    /\ req.pc = "returned"
    /\ Truthy(req.document_ids)
    /\ req.hits # {}
    /\ \E o \in weaviate_objects :
           /\ o.user_id = req.user
           /\ o.document_id \notin req.document_ids.ids

\* C18: whatever the provider replies, a list returned by get_embeddings has
\* exactly len(texts) vectors, the one at position i being an embedding the
\* reply declares for input index i; otherwise the call fails.
C18_OneVectorPerText ==
    emb.pc = "returned"
        => /\ Len(emb.result) = emb.texts
           /\ \A i \in 1..Len(emb.result) :
                  \E j \in 1..Len(emb.data) :
                      /\ emb.data[j].index = i - 1
                      /\ emb.data[j].embedding = emb.result[i]

\* C19: _ensure_collection sends a create only after the store reported the
\* collection missing; however the calls of several adapters interleave,
\* the store holds at most one collection, the one with the fixed schema, a
\* call that returned leaves it in place, and no call fails because the
\* collection already exists.
C19_EnsureCollectionIdempotent ==
    /\ mil.collections \subseteq {FixedCollection}
    /\ \A p \in Adapters :
           LET a == mil.adapter[p]
           IN  /\ a.create_sent => a.saw = "missing"
               /\ a.pc = "raised" => ~mentions_already_exist(a.exc)
               /\ (a.op = "connect" /\ a.pc = "returned" /\ a.saw # "none")
                      => mil.collections = {FixedCollection}

\* two adapters both found the collection missing and both sent a create:
\* the second was told that the collection already exists, and returned
C19_Witness ==
    \E p, q \in Adapters :
        /\ p # q
        /\ mil.adapter[p].saw = "missing" /\ mil.adapter[q].saw = "missing"
        /\ mil.adapter[p].create_sent /\ mil.adapter[q].create_sent
        /\ mil.adapter[p].pc = "returned" /\ mil.adapter[q].pc = "returned"
        /\ mil.adapter[p].reply = Ok(FALSE)
        /\ mil.adapter[q].reply = AlreadyExists
        /\ mil.collections = {FixedCollection}

\* C20: health_check returns a boolean and never raises, and no step of it
\* changes the store's set of collections or the connection state of its
\* adapter, whether or not the adapter was connected and the collection
\* present when it was called.
C20_HealthCheckReadOnly ==
    /\ [](\A p \in Adapters :
              mil.adapter[p].op = "health_check"
                  => /\ mil.adapter[p].pc # "raised"
                     /\ mil.adapter[p].pc = "returned"
                            => mil.adapter[p].result \in BOOLEAN)
    /\ [][\A p \in Adapters :
              (mil.adapter'[p].op = "health_check" /\ mil.adapter'[p] # mil.adapter[p])
                  => /\ mil.collections' = mil.collections
                     /\ mil.adapter'[p].connected = mil.adapter[p].connected]_vars

\* C21: when no request is in flight, each Chunk row of a COMPLETED document
\* carries the id of exactly one vector record of that document, and
\* chunk_count is both the number of its Chunk rows and the number of its
\* vector records, whatever ids the insert reply listed.
C21_OneVectorPerChunk ==
    req.pc = "idle"
        => \A d \in DocIds :
               (IsDoc(documents[d]) /\ documents[d].status = COMPLETED)
                   => /\ documents[d].chunk_count = Cardinality(RowsOf(d))
                      /\ documents[d].chunk_count = Cardinality(VectorsOf(d))
                      /\ \A r \in RowsOf(d) :
                             Cardinality({v \in VectorsOf(d) : v.id = r.weaviate_id}) = 1

\* the words of a text: str.split()
WordsOf(text) == split_words(text, 1)
WordSet(text) == {WordsOf(text)[i] : i \in 1..Len(WordsOf(text))}

\* C22: chunk_text keeps the final chunk whatever its size: an input with at
\* least one word yields at least one chunk, and an input shorter than
\* MIN_CHUNK_SIZE yields exactly one chunk, holding all of it.
C22_TailPreserved ==
    chk.pc = "returned"
        => /\ WordsOf(chk.text) # << >> => Len(chk.chunks) >= 1
           /\ Len(clean_text(chk.text)) < MIN_CHUNK_SIZE
                  => /\ Len(chk.chunks) = 1
                     /\ chk.chunks[1].content = clean_text(chk.text)

\* C23: every word of the normalized input occurs in some chunk.
C23_EveryWordInAChunk ==
    chk.pc = "returned"
        => \A w \in WordSet(clean_text(chk.text)) :
               \E i \in 1..Len(chk.chunks) : w \in WordSet(chk.chunks[i].content)

\* len(content.strip()) of every chunk of every input text
TrimmedLen ==
    [t \in TextIds |->
        [i \in 1..Len(ChunkTable[t]) |-> Len(strip(ChunkTable[t][i].content))]]

\* the rows of the request's document in its session
SessionRowsOf(document_id) == {r \in srows : r.document_id = document_id}

\* C24: the chunk_index values chunk_text assigns are 0, 1, ..., n-1 in
\* emission order and every chunk's trimmed content is non-empty; the Chunk
\* rows written for the chunks carry the same values, one row each, and so
\* does the vector record inserted for each chunk.
C24_ChunkIndexAgreement ==
    (Ingesting /\ IsDoc(sdoc) /\ req.persisted)
        => LET chunks == ChunkTable[sdoc.text]
               n == Len(chunks)
           IN  /\ \A i \in 1..n :
                      /\ chunks[i].chunk_index = i - 1
                      /\ TrimmedLen[sdoc.text][i] > 0
                      /\ Cardinality({r \in SessionRowsOf(req.doc) :
                                         r.chunk_index = chunks[i].chunk_index}) = 1
               /\ Cardinality(SessionRowsOf(req.doc)) = n
               /\ req.acked
                      => \A i \in 1..Len(req.milvus_ids) :
                             \E v \in vectors :
                                 /\ v.id = req.milvus_ids[i]
                                 /\ v.document_id = req.doc
                                 /\ v.chunk_index = chunks[i].chunk_index
                                 /\ \A r \in SessionRowsOf(req.doc) :
                                        r.weaviate_id = v.id
                                            => r.chunk_index = v.chunk_index

\* an ingestion of a text of two chunks has returned with its rows given the
\* ids of its vector records
C24_Witness ==
    /\ Ingesting
    /\ req.pc = "returned"
    /\ req.acked
    /\ sdoc.status = COMPLETED
    /\ Len(req.chunks) = 2
    /\ \A r \in SessionRowsOf(req.doc) : r.weaviate_id # 0

\* the record is one that ingestion's add_chunks inserted
Ingested(h) ==
    \E v \in vectors : /\ v.document_id = h.document_id
                       /\ v.chunk_index = h.chunk_index
                       /\ v.user_id = h.user_id

\* C25: the search of every query path (ask and chat message through
\* MilvusService.search, streaming chat through WeaviateService.search) reads
\* the store that ingestion writes: what it returns are ingested records,
\* and when the caller's records fit the limit, an unrestricted search
\* returns the chunks of each COMPLETED document of the caller.
C25_ReadPathsSeeIngestion ==
    (req.kind \in {"search", "weaviate_search"} /\ req.pc = "returned")
        => /\ \A h \in req.hits : Ingested(h)
           /\ (/\ ~Truthy(req.document_ids)
               /\ Cardinality({v \in vectors : v.user_id = req.user}) <= 3)
                  => \A v \in vectors :
                         (/\ v.user_id = req.user
                          /\ IsDoc(documents[v.document_id])
                          /\ documents[v.document_id].status = COMPLETED)
                             => \E h \in req.hits :
                                    /\ h.document_id = v.document_id
                                    /\ h.chunk_index = v.chunk_index

\* C26: a connect() that failed leaves the adapter not connected, so that
\* _connected is true only after a successful _ensure_collection and the
\* next call connects again.
C26_FailedConnectNotConnected ==
    \A p \in Adapters :
        (mil.adapter[p].op = "connect" /\ mil.adapter[p].pc = "raised")
            => ~mil.adapter[p].connected


\* C27: the chat history send_message hands to the generator is made of the
\* most recent messages stored before the current one, in the order they
\* were written, and never holds the current message, however long the
\* session is
C27_HistoryIsRecentPrior ==
    chat.pc = "query" =>
        LET prior == chat.messages
            h == chat.chat_history
            n == Len(h)
        IN  /\ \A i \in 1..n : h[i].id # chat.added[1].id
            /\ n <= Len(prior)
            /\ h = SubSeq(prior, Len(prior) - n + 1, Len(prior))
            /\ prior # << >> => n > 0

\* C28: message_count is the number of stored messages, each add_message
\* counts one, and a send_message call has added one user message followed
\* by one assistant message when it returns, whether the query answered or
\* raised
C28_UserThenAssistant ==
    /\ chat.message_count = Len(chat.messages)
    /\ chat.updates = Len(chat.added)
    /\ \A i \in 1..Len(chat.messages) :
           /\ chat.messages[i].id = i
           /\ chat.messages[i].role = (IF i % 2 = 1 THEN "user" ELSE "assistant")
    /\ chat.pc = "returned" =>
           /\ Len(chat.added) = 2
           /\ chat.added[1].role = "user"
           /\ chat.added[2].role = "assistant"
           /\ chat.added[2].content = (IF chat.outcome = "raised" THEN "error"
                                       ELSE "answer")

C28_Witness ==
    /\ chat.pc = "idle"
    /\ chat.message_count = 4
    /\ chat.messages[2].content = "error"
    /\ chat.messages[4].content = "answer"

\* C29: a search called with the empty document_ids list applies the
\* tenant filter alone, as with None: the store is asked for the best
\* matches among all records of the caller, and answers with as many of
\* them as the limit allows (an answer with GraphQL errors yields the empty
\* list on the Weaviate path, for either argument)
C29_EmptyListIsNone ==
    (/\ req.kind \in {"search", "weaviate_search"}
     /\ req.pc = "returned"
     /\ req.document_ids.given
     /\ req.document_ids.ids = {})
        => IF req.kind = "search"
           THEN req.hits \in TopK({v \in vectors : v.user_id = req.user}, 3)
           ELSE \/ req.hits = {}
                \/ req.hits \in TopK({o \in weaviate_objects : o.user_id = req.user}, 5)

\* a search with the empty list has returned records of two documents
C29_Witness ==
    /\ req.kind = "search"
    /\ req.pc = "returned"
    /\ req.document_ids = [given |-> TRUE, ids |-> {}]
    /\ \E h1, h2 \in req.hits : h1.document_id # h2.document_id

\* C30: every OTP issued is compared with at most 5 submitted codes and
\* accepted at most once, after which it is gone; a verification that
\* finds 5 wrong submissions on record, or an expired OTP, fails and
\* discards the OTP even when the submitted code is the right one; only a
\* verification of the right code accepts
C30_FiveComparisons ==
    /\ \A i \in 1..Len(otp.compared) :
           /\ otp.compared[i] <= 5
           /\ otp.accepted[i] <= 1
           /\ otp.accepted[i] = 1 => \A e \in Emails : otp.store[e].issue # i
    /\ otp.pc = "returned" =>
           LET v == otp.verdict
           IN  /\ (v.stored # NoOtp /\ v.stored.attempts >= 5)
                      => ~v.ok /\ otp.store[v.email] = NoOtp
               /\ (v.stored # NoOtp /\ otp.now > v.stored.expires_at)
                      => ~v.ok /\ otp.store[v.email] = NoOtp
               /\ v.ok => /\ v.stored.otp = v.otp
                          /\ otp.store[v.email] = NoOtp

\* the right code, submitted after 5 wrong ones and before the OTP expires,
\* has been refused
C30_Witness ==
    /\ otp.pc = "returned"
    /\ otp.verdict.stored.attempts = 5
    /\ otp.compared[otp.verdict.stored.issue] = 5
    /\ otp.verdict.otp = otp.verdict.stored.otp
    /\ otp.now <= otp.verdict.stored.expires_at
    /\ ~otp.verdict.ok
    /\ otp.store[otp.verdict.email] = NoOtp

====
